---------------------------- MODULE Spec2Model ----------------------------
(***************************************************************************)
(* flask_taler.Taler: the Flask extension that talks to a GNU Taler        *)
(* merchant backend (create_order, get_payment_url, get_order,             *)
(* process_refund) and receives its webhooks (verify_webhook_signature,    *)
(* handle_webhook).                                                        *)
(*                                                                         *)
(* Python values are tagged records.  Text that the code only formats or   *)
(* compares is a string; text that is taken apart, encoded, hashed or      *)
(* parsed (URLs and the order ids put into them, the webhook secret,       *)
(* signature and body) is a sequence of code points or bytes.              *)
(*                                                                         *)
(* A library function that works in steps is written as local operators,   *)
(* one per step, each handing what it has computed to the next as a        *)
(* parameter.                                                              *)
(***************************************************************************)
EXTENDS Integers, Sequences, FiniteSets, TLC

VARIABLES
  phase,    \* "start" | "bare" (Taler() made, no init_app yet) | "ready" | "failed"
  app,      \* the Flask application: config, extensions, before_request hooks
  taler,    \* the attributes of the Taler instance
  pc,       \* "idle" | "http" | "verify" | "wh_verify" | "wh_parse" | "wh_dispatch" | "done"
  call,     \* the method running or last run, with its arguments
  sent,     \* the HTTP requests the running (or last) call handed to requests
  request,  \* flask.request of the webhook being handled
  event,    \* handle_webhook's local `event`
  log,      \* what the running (or last) call wrote to the module logger
  result    \* how the last call ended: a return value, an exception, an abort

vars == << phase, app, taler, pc, call, sent, request, event, log, result >>

(***************************************************************************)
(* Python values                                                           *)
(***************************************************************************)
PyNone == [type |-> "NoneType"]
PyStr(s) == [type |-> "str", s |-> s]
PyInt(n) == [type |-> "int", n |-> n]
\* the float whole + tenths/10, for whole >= 0 and tenths in 0..9
PyFloat(whole, tenths) == [type |-> "float", whole |-> whole, tenths |-> tenths]
PyBool(b) == [type |-> "bool", b |-> b]
PyDict(d) == [type |-> "dict", d |-> d]
PyList(l) == [type |-> "list", l |-> l]

\* bool(v): what `not v` and `v or w` test
Truthy(v) ==
  CASE v.type = "NoneType" -> FALSE
    [] v.type = "str"   -> Len(v.s) > 0
    [] v.type = "int"   -> v.n # 0
    [] v.type = "float" -> ~(v.whole = 0 /\ v.tenths = 0)
    [] v.type = "bool"  -> v.b
    [] v.type = "dict"  -> DOMAIN v.d # {}
    [] v.type = "list"  -> Len(v.l) > 0

\* `a or b`
PyOr(a, b) == IF Truthy(a) THEN a ELSE b

\* str(v), which is what an f-string field {v} renders
Format(v) ==
  CASE v.type = "NoneType" -> "None"
    [] v.type = "str"   -> v.s
    [] v.type = "int"   -> ToString(v.n)
    [] v.type = "float" -> ToString(v.whole) \o "." \o ToString(v.tenths)
    [] v.type = "bool"  -> IF v.b THEN "True" ELSE "False"

\* what an operation gives in place of [ok |-> TRUE, ...] when it raises
Fail == [ok |-> FALSE]

\* dict.get(key): the value, or None when the key is absent
DictGet(d, key) == IF key \in DOMAIN d THEN d[key] ELSE PyNone

(***************************************************************************)
(* Text.  A str the code takes apart, joins or hashes is a sequence of     *)
(* code points; bytes are a sequence of 0..255.                            *)
(***************************************************************************)
Take(s, n) == SubSeq(s, 1, n)
Drop(s, n) == SubSeq(s, n + 1, Len(s))

\* s.startswith(p)
HasPrefix(s, p) == Len(s) >= Len(p) /\ SubSeq(s, 1, Len(p)) = p

\* the first index, from `from` on, of a character of C; 0 when there is none
Find(s, C, from) ==
  LET I == { i \in from..Len(s) : s[i] \in C }
  IN  IF I = {} THEN 0 ELSE CHOOSE i \in I : \A j \in I : i <= j

\* the last index of a character of C; 0 when there is none
RFind(s, C) ==
  LET I == { i \in 1..Len(s) : s[i] \in C }
  IN  IF I = {} THEN 0 ELSE CHOOSE i \in I : \A j \in I : i >= j

IsAsciiDigit(c) == c >= 48 /\ c <= 57
IsHexDigit(c) == IsAsciiDigit(c) \/ (c >= 97 /\ c <= 102) \/ (c >= 65 /\ c <= 70)
\* the number the decimal digits s[i], ..., s[j - 1] stand for, after acc
RECURSIVE DigitsValue(_, _, _, _)
DigitsValue(s, i, j, acc) ==
  IF i >= j THEN acc ELSE DigitsValue(s, i + 1, j, acc * 10 + (s[i] - 48))

HexDigitValue(c) == IF IsAsciiDigit(c) THEN c - 48 ELSE IF c >= 97 THEN c - 87 ELSE c - 55

\* str.lower() and str.upper(), on ASCII letters
Lower(s) == [i \in 1..Len(s) |-> IF s[i] >= 65 /\ s[i] <= 90 THEN s[i] + 32 ELSE s[i]]
Upper(s) == [i \in 1..Len(s) |-> IF s[i] >= 97 /\ s[i] <= 122 THEN s[i] - 32 ELSE s[i]]

\* s.split(c)
RECURSIVE Split(_, _)
Split(s, c) ==
  LET i == Find(s, {c}, 1)
  IN  IF i = 0 THEN << s >> ELSE << Take(s, i - 1) >> \o Split(Drop(s, i), c)

\* c.join(parts)
RECURSIVE Join(_, _)
Join(parts, c) ==
  IF Len(parts) = 0 THEN << >>
  ELSE IF Len(parts) = 1 THEN parts[1]
  ELSE parts[1] \o << c >> \o Join(Tail(parts), c)

\* "".join(parts[lo], ..., parts[hi]), halving the range
RECURSIVE Concat(_, _, _)
Concat(parts, lo, hi) ==
  IF lo > hi THEN << >>
  ELSE IF lo = hi THEN parts[lo]
  ELSE Concat(parts, lo, (lo + hi) \div 2) \o Concat(parts, (lo + hi) \div 2 + 1, hi)

\* str(n) for n >= 0
RECURSIVE DecimalText(_)
DecimalText(n) ==
  IF n < 10 THEN << 48 + n >> ELSE DecimalText(n \div 10) \o << 48 + (n % 10) >>

\* the UTF-8 bytes of one code point, a surrogate included
Utf8Bytes(c) ==
  IF c < 128 THEN << c >>
  ELSE IF c < 2048 THEN << 192 + (c \div 64), 128 + (c % 64) >>
  ELSE IF c < 65536
    THEN << 224 + (c \div 4096), 128 + ((c \div 64) % 64), 128 + (c % 64) >>
  ELSE << 240 + (c \div 262144), 128 + ((c \div 4096) % 64),
          128 + ((c \div 64) % 64), 128 + (c % 64) >>

\* str.encode('utf-8', 'surrogatepass')
Utf8SurrogatePass(cs, i) ==
  Concat([k \in 1..Len(cs) |-> Utf8Bytes(cs[k])], i, Len(cs))

\* str.encode('utf-8'): a lone surrogate raises UnicodeEncodeError
RECURSIVE Utf8Encode(_, _)
Utf8Encode(cs, i) ==
  IF i > Len(cs) THEN [ok |-> TRUE, v |-> << >>]
  ELSE IF cs[i] >= 55296 /\ cs[i] <= 57343 THEN Fail
  ELSE LET rest == Utf8Encode(cs, i + 1)
       IN  IF rest.ok THEN [ok |-> TRUE, v |-> Utf8Bytes(cs[i]) \o rest.v]
           ELSE Fail

\* str(v) as code points, for a value an f-string puts into a URL
StrText(v) ==
  CASE v.type = "str" -> v.s
    [] v.type = "NoneType" -> << 78, 111, 110, 101 >>
    [] v.type = "int" ->
         IF v.n < 0 THEN << 45 >> \o DecimalText(-v.n) ELSE DecimalText(v.n)

(***************************************************************************)
(* urllib.parse, as urljoin(self.merchant_backend_url, path) uses it.      *)
(***************************************************************************)
\* '' 'ftp' 'http' 'gopher' 'nntp' 'imap' 'wais' 'file' 'https' 'shttp'
\* 'mms' 'prospero' 'rtsp' 'rtsps' 'rtspu' 'sftp' 'svn' 'svn+ssh' 'ws'
\* 'wss'
uses_relative ==
  { << >>,
    << 102, 116, 112 >>,
    << 104, 116, 116, 112 >>,
    << 103, 111, 112, 104, 101, 114 >>,
    << 110, 110, 116, 112 >>,
    << 105, 109, 97, 112 >>,
    << 119, 97, 105, 115 >>,
    << 102, 105, 108, 101 >>,
    << 104, 116, 116, 112, 115 >>,
    << 115, 104, 116, 116, 112 >>,
    << 109, 109, 115 >>,
    << 112, 114, 111, 115, 112, 101, 114, 111 >>,
    << 114, 116, 115, 112 >>,
    << 114, 116, 115, 112, 115 >>,
    << 114, 116, 115, 112, 117 >>,
    << 115, 102, 116, 112 >>,
    << 115, 118, 110 >>,
    << 115, 118, 110, 43, 115, 115, 104 >>,
    << 119, 115 >>,
    << 119, 115, 115 >> }

\* '' 'ftp' 'http' 'gopher' 'nntp' 'telnet' 'imap' 'wais' 'file' 'mms'
\* 'https' 'shttp' 'snews' 'prospero' 'rtsp' 'rtsps' 'rtspu' 'rsync' 'svn'
\* 'svn+ssh' 'sftp' 'nfs' 'git' 'git+ssh' 'ws' 'wss'
uses_netloc ==
  { << >>,
    << 102, 116, 112 >>,
    << 104, 116, 116, 112 >>,
    << 103, 111, 112, 104, 101, 114 >>,
    << 110, 110, 116, 112 >>,
    << 116, 101, 108, 110, 101, 116 >>,
    << 105, 109, 97, 112 >>,
    << 119, 97, 105, 115 >>,
    << 102, 105, 108, 101 >>,
    << 109, 109, 115 >>,
    << 104, 116, 116, 112, 115 >>,
    << 115, 104, 116, 116, 112 >>,
    << 115, 110, 101, 119, 115 >>,
    << 112, 114, 111, 115, 112, 101, 114, 111 >>,
    << 114, 116, 115, 112 >>,
    << 114, 116, 115, 112, 115 >>,
    << 114, 116, 115, 112, 117 >>,
    << 114, 115, 121, 110, 99 >>,
    << 115, 118, 110 >>,
    << 115, 118, 110, 43, 115, 115, 104 >>,
    << 115, 102, 116, 112 >>,
    << 110, 102, 115 >>,
    << 103, 105, 116 >>,
    << 103, 105, 116, 43, 115, 115, 104 >>,
    << 119, 115 >>,
    << 119, 115, 115 >> }

\* '' 'ftp' 'hdl' 'prospero' 'http' 'imap' 'https' 'shttp' 'rtsp' 'rtsps'
\* 'rtspu' 'sip' 'sips' 'mms' 'sftp' 'tel'
uses_params ==
  { << >>,
    << 102, 116, 112 >>,
    << 104, 100, 108 >>,
    << 112, 114, 111, 115, 112, 101, 114, 111 >>,
    << 104, 116, 116, 112 >>,
    << 105, 109, 97, 112 >>,
    << 104, 116, 116, 112, 115 >>,
    << 115, 104, 116, 116, 112 >>,
    << 114, 116, 115, 112 >>,
    << 114, 116, 115, 112, 115 >>,
    << 114, 116, 115, 112, 117 >>,
    << 115, 105, 112 >>,
    << 115, 105, 112, 115 >>,
    << 109, 109, 115 >>,
    << 115, 102, 116, 112 >>,
    << 116, 101, 108 >> }

\* The text of an IPv6 address: groups of one to four hexadecimal digits with
\* ":" between them, the last of which may be a dotted quad, that stands for
\* two groups; eight groups, or at most seven with one "::" in place of the
\* others.  ipaddress.IPv6Address takes a dotted quad that is an IPv4
\* address (strict: numbers up to 255 without leading zeros), urllib3's
\* IPV6_PAT any four numbers of one to three digits.
IsIPv6(a, strict) ==
  LET IsH16(p) == Len(p) \in 1..4 /\ \A i \in 1..Len(p) : IsHexDigit(p[i])
      IsOctet(o) ==
        /\ Len(o) \in 1..3
        /\ \A i \in 1..Len(o) : IsAsciiDigit(o[i])
        /\ strict => /\ Len(o) > 1 => o[1] # 48
                     /\ DigitsValue(o, 1, Len(o) + 1, 0) <= 255
      IsDottedQuad(q) == Len(q) = 4 /\ \A k \in 1..4 : IsOctet(q[k])
      Pieces(s) == IF Len(s) = 0 THEN << >> ELSE Split(s, 58)
      \* the groups the pieces stand for, or -1
      Groups(ps) ==
        IF \A k \in 1..Len(ps) : IsH16(ps[k]) THEN Len(ps)
        ELSE IF /\ \A k \in 1..(Len(ps) - 1) : IsH16(ps[k])
                /\ IsDottedQuad(Split(ps[Len(ps)], 46))
          THEN Len(ps) + 1
        ELSE -1
      Address(dc) ==
        IF dc = 0 THEN Groups(Pieces(a)) = 8
        ELSE /\ \A k \in 1..Len(Pieces(Take(a, dc - 1))) :
                  IsH16(Pieces(Take(a, dc - 1))[k])
             /\ Groups(Pieces(Drop(a, dc + 1))) >= 0
             /\ Len(Pieces(Take(a, dc - 1))) + Groups(Pieces(Drop(a, dc + 1))) <= 7
      \* where the first "::" stands, or 0
      Elided(D) == Address(IF D = {} THEN 0 ELSE CHOOSE i \in D : \A j \in D : i <= j)
  IN  Elided({ i \in 1..(Len(a) - 1) : a[i] = 58 /\ a[i + 1] = 58 })

\* urllib.parse._check_bracketed_host(hostname) of Python 3.11.4 and later,
\* FALSE where it raises ValueError: after "v" an IPvFuture address, hexadecimal digits, "." and
\* more; otherwise what ipaddress.ip_address takes for an IPv6 address, with
\* a scope after "%" that is not empty and holds no other "%"
_check_bracketed_host(hostname) ==
  LET Scoped(pct) ==
        /\ IsIPv6(IF pct = 0 THEN hostname ELSE Take(hostname, pct - 1), TRUE)
        /\ pct > 0 => pct < Len(hostname) /\ Find(hostname, {37}, pct + 1) = 0
        /\ \A i \in 1..Len(hostname) : hostname[i] # 47
  IN  IF HasPrefix(hostname, << 118 >>)
      THEN \E d \in 3..(Len(hostname) - 1) :
              hostname[d] = 46 /\ \A k \in 2..(d - 1) : IsHexDigit(hostname[k])
      ELSE Scoped(Find(hostname, {37}, 1))

\* the index of the ":" that ends a scheme, 0 when the text starts with none:
\* a scheme is a letter and then scheme_chars, letters, digits and "+-."
SchemeEnd(u) ==
  LET i == Find(u, {58}, 1)
      letters == (65..90) \cup (97..122)
      scheme_chars == letters \cup (48..57) \cup {43, 45, 46}
  IN  IF i > 1 /\ u[1] \in letters /\ (\A k \in 1..(i - 1) : u[k] \in scheme_chars)
      THEN i ELSE 0

\* urlsplit(url, scheme).  url.lstrip(_WHATWG_C0_CONTROL_OR_SPACE) drops the
\* leading characters up to the space, and tab, CR and LF are removed
\* wherever they stand.  ValueError for a netloc with one bracket but not
\* the other, and for one with both when what stands after the first "[" up
\* to the next "]" does not pass _check_bracketed_host.  A netloc that is
\* not ASCII is taken to pass the NFKC check.
urlsplit(url, scheme) ==
  LET Bracketed(after, cb) ==
        _check_bracketed_host(IF cb = 0 THEN after ELSE Take(after, cb - 1))
      Rest(sch, netloc, u3) ==
        LET h  == Find(u3, {35}, 1)
            u4 == IF h > 0 THEN Take(u3, h - 1) ELSE u3
            q  == Find(u4, {63}, 1)
        IN  IF (Find(netloc, {91}, 1) > 0) # (Find(netloc, {93}, 1) > 0) THEN Fail
            ELSE IF /\ Find(netloc, {91}, 1) > 0
                    /\ ~Bracketed(Drop(netloc, Find(netloc, {91}, 1)),
                                  Find(Drop(netloc, Find(netloc, {91}, 1)), {93}, 1))
              THEN Fail
            ELSE [ok |-> TRUE,
                  scheme |-> sch,
                  netloc |-> netloc,
                  path |-> IF q > 0 THEN Take(u4, q - 1) ELSE u4,
                  query |-> IF q > 0 THEN Drop(u4, q) ELSE << >>,
                  fragment |-> IF h > 0 THEN Drop(u3, h) ELSE << >>]
      Netloc(sch, u2, d) ==
        Rest(sch,
             IF HasPrefix(u2, << 47, 47 >>) THEN SubSeq(u2, 3, d - 1) ELSE << >>,
             IF HasPrefix(u2, << 47, 47 >>) THEN SubSeq(u2, d, Len(u2)) ELSE u2)
      AfterScheme(sch, u2) ==
        Netloc(sch, u2, IF Find(u2, {47, 63, 35}, 3) = 0 THEN Len(u2) + 1
                        ELSE Find(u2, {47, 63, 35}, 3))
      Scheme(u1, e) ==
        AfterScheme(IF e > 0 THEN Lower(Take(u1, e - 1)) ELSE scheme,
                    IF e > 0 THEN Drop(u1, e) ELSE u1)
      Stripped(u1) == Scheme(u1, SchemeEnd(u1))
      f == Find(url, 33..1114111, 1)
  IN  Stripped(IF f = 0 THEN << >>
               ELSE SelectSeq(Drop(url, f - 1), LAMBDA c : c \notin {9, 10, 13}))

\* urlparse(url, scheme).  _splitparams: the parameters of the last segment
\* start at its first ";"
urlparse(url, scheme) ==
  LET Params(r, i) ==
        IF r.scheme \in uses_params /\ i > 0
        THEN [r EXCEPT !.path = Take(r.path, i - 1)] @@ [params |-> Drop(r.path, i)]
        ELSE r @@ [params |-> << >>]
      Split1(r) ==
        IF ~r.ok THEN r
        ELSE Params(r, IF Find(r.path, {47}, 1) > 0
                       THEN Find(r.path, {59}, RFind(r.path, {47}))
                       ELSE Find(r.path, {59}, 1))
  IN  Split1(urlsplit(url, scheme))

\* urlunsplit((scheme, netloc, url, query, fragment))
urlunsplit(scheme, netloc, url, query, fragment) ==
  (IF Len(scheme) > 0 THEN scheme \o << 58 >> ELSE << >>)
    \o (IF Len(netloc) > 0
           \/ (Len(scheme) > 0 /\ scheme \in uses_netloc
                 /\ ~HasPrefix(url, << 47, 47 >>))
        THEN << 47, 47 >> \o netloc
               \o (IF Len(url) > 0 /\ url[1] # 47 THEN << 47 >> ELSE << >>) \o url
        ELSE url)
    \o (IF Len(query) > 0 THEN << 63 >> \o query ELSE << >>)
    \o (IF Len(fragment) > 0 THEN << 35 >> \o fragment ELSE << >>)

\* urlunparse((scheme, netloc, url, params, query, fragment))
urlunparse(scheme, netloc, url, params, query, fragment) ==
  urlunsplit(scheme, netloc,
             IF Len(params) > 0 THEN url \o << 59 >> \o params ELSE url,
             query, fragment)

\* the loop of urljoin over the segments: ".." drops the segment before it,
\* "." is skipped
RECURSIVE ResolveSegments(_, _)
ResolveSegments(segments, resolved) ==
  IF Len(segments) = 0 THEN resolved
  ELSE IF Head(segments) = << 46, 46 >>
    THEN ResolveSegments(Tail(segments),
           IF Len(resolved) = 0 THEN resolved ELSE Take(resolved, Len(resolved) - 1))
  ELSE IF Head(segments) = << 46 >> THEN ResolveSegments(Tail(segments), resolved)
  ELSE ResolveSegments(Tail(segments), Append(resolved, Head(segments)))

\* urljoin(base, url) for the urls the methods build, "/private/orders..."
\* (lines 112, 136, 162, 196): not empty, without scheme and netloc, their
\* path absolute.  base is the Python value of merchant_backend_url, None or
\* a str.  [ok |-> FALSE] is the ValueError of urlsplit.
urljoin(base, url) ==
  LET Path(segments, resolved) ==
        Join(IF segments[Len(segments)] \in { << 46 >>, << 46, 46 >> }
             THEN Append(resolved, << >>) ELSE resolved, 47)
      Resolved(segments) == Path(segments, ResolveSegments(segments, << >>))
      Unparse(b, u, joined) ==
        [ok |-> TRUE,
         v |-> urlunparse(u.scheme,
                          IF u.scheme \in uses_netloc THEN b.netloc ELSE << >>,
                          IF Len(joined) = 0 THEN << 47 >> ELSE joined,
                          u.params, u.query, u.fragment)]
      Joined(b, u) ==
        IF ~b.ok \/ ~u.ok THEN Fail
        ELSE IF u.scheme # b.scheme \/ u.scheme \notin uses_relative
          THEN [ok |-> TRUE, v |-> url]
        ELSE Unparse(b, u, Resolved(Split(u.path, 47)))
      Based(b) == Joined(b, urlparse(url, IF b.ok THEN b.scheme ELSE << >>))
  IN  IF ~Truthy(base) THEN [ok |-> TRUE, v |-> url]
      ELSE Based(urlparse(base.s, << >>))

(***************************************************************************)
(* The Flask applications handed to the extension.  app.config is a        *)
(* function from the keys that are set: the three URLs and keys init_app   *)
(* reads with app.config[...], and the two it reads with app.config.get.   *)
(***************************************************************************)
\* "https://taler.example.com"
ExchangeUrl ==
  PyStr(<< 104, 116, 116, 112, 115, 58, 47, 47, 116, 97, 108, 101, 114, 46,
           101, 120, 97, 109, 112, 108, 101, 46, 99, 111, 109 >>)

\* the backend of the tests and of the demo, and one served under a path
\* "https://merchant.taler.example.com"
TestBackendUrl ==
  PyStr(<< 104, 116, 116, 112, 115, 58, 47, 47, 109, 101, 114, 99, 104, 97,
           110, 116, 46, 116, 97, 108, 101, 114, 46, 101, 120, 97, 109, 112,
           108, 101, 46, 99, 111, 109 >>)

\* "https://backend.example.com/instances/shop"
InstanceBackendUrl ==
  PyStr(<< 104, 116, 116, 112, 115, 58, 47, 47, 98, 97, 99, 107, 101, 110,
           100, 46, 101, 120, 97, 109, 112, 108, 101, 46, 99, 111, 109, 47,
           105, 110, 115, 116, 97, 110, 99, 101, 115, 47, 115, 104, 111,
           112 >>)

\* backends whose URL is not what the README shows: a host in capitals,
\* "https://Merchant.Example.com"
CapitalsBackendUrl ==
  PyStr(<< 104, 116, 116, 112, 115, 58, 47, 47, 77, 101, 114, 99, 104, 97,
           110, 116, 46, 69, 120, 97, 109, 112, 108, 101, 46, 99, 111, 109 >>)

\* a taler: URI, "taler://merchant.example.com"
TalerSchemeBackendUrl ==
  PyStr(<< 116, 97, 108, 101, 114, 58, 47, 47, 109, 101, 114, 99, 104, 97,
           110, 116, 46, 101, 120, 97, 109, 112, 108, 101, 46, 99, 111, 109 >>)

\* "ftp://merchant.example.com"
FtpBackendUrl ==
  PyStr(<< 102, 116, 112, 58, 47, 47, 109, 101, 114, 99, 104, 97, 110, 116,
           46, 101, 120, 97, 109, 112, 108, 101, 46, 99, 111, 109 >>)

\* "https://[fe80::1%25eth0]", a link-local IPv6 address with its zone
ZoneBackendUrl ==
  PyStr(<< 104, 116, 116, 112, 115, 58, 47, 47, 91, 102, 101, 56, 48, 58, 58, 49,
           37, 50, 53, 101, 116, 104, 48, 93 >>)

\* "https://[merchant.example.com"
OpenBracketBackendUrl ==
  PyStr(<< 104, 116, 116, 112, 115, 58, 47, 47, 91, 109, 101, 114, 99, 104,
           97, 110, 116, 46, 101, 120, 97, 109, 112, 108, 101, 46, 99, 111,
           109 >>)

ApiKey == PyStr("test_api_key")

\* "whsec" as code points
WebhookSecretText == << 119, 104, 115, 101, 99 >>

\* a secret that is no text UTF-8 can carry: the lone surrogate "\ud800"
SurrogateSecretText == << 55296 >>

NoKeys == [k \in {} |-> PyNone]

RequiredConfig(url) ==
  ("TALER_EXCHANGE_URL" :> ExchangeUrl) @@ ("TALER_MERCHANT_BACKEND_URL" :> url)
    @@ ("TALER_MERCHANT_API_KEY" :> ApiKey)

AppConfigs ==
  { \* the application of tests/test_taler.py
    RequiredConfig(TestBackendUrl),
    \* the application of demo/app.py
    RequiredConfig(TestBackendUrl) @@ ("TALER_DEFAULT_CURRENCY" :> PyStr("EUR")),
    RequiredConfig(TestBackendUrl) @@ ("TALER_DEFAULT_CURRENCY" :> PyStr("KUDOS")),
    RequiredConfig(InstanceBackendUrl) @@ ("TALER_WEBHOOK_SECRET" :> PyStr(<< >>)),
    RequiredConfig(InstanceBackendUrl) @@ ("TALER_DEFAULT_CURRENCY" :> PyStr("KUDOS"))
      @@ ("TALER_WEBHOOK_SECRET" :> PyStr(WebhookSecretText)),
    \* an application that sets no API key
    ("TALER_EXCHANGE_URL" :> ExchangeUrl)
      @@ ("TALER_MERCHANT_BACKEND_URL" :> TestBackendUrl),
    \* applications with another kind of backend URL or secret
    RequiredConfig(CapitalsBackendUrl)
      @@ ("TALER_WEBHOOK_SECRET" :> PyStr(SurrogateSecretText)),
    RequiredConfig(TalerSchemeBackendUrl),
    RequiredConfig(FtpBackendUrl),
    \* "http://"
    RequiredConfig(PyStr(<< 104, 116, 116, 112, 58, 47, 47 >>)),
    RequiredConfig(ZoneBackendUrl),
    RequiredConfig(OpenBracketBackendUrl) }

(***************************************************************************)
(* The Taler instance                                                      *)
(***************************************************************************)
Unset == [type |-> "unset"]

\* no instance: before the constructor has run, or after it raised
NoObject ==
  [app |-> Unset, exchange_url |-> Unset, merchant_backend_url |-> Unset,
   merchant_api_key |-> Unset, default_currency |-> Unset, webhook_secret |-> Unset]

\* Taler.init_app: the assignments in order; app.config[key] raises KeyError
\* at the first required key that is absent and leaves the rest undone.
\* Flask's app.before_request raises AssertionError once the application has
\* handled a request, when everything but the hook is done.
init_app(self, a) ==
  LET c == a.config
      s1 == [self EXCEPT !.exchange_url = c["TALER_EXCHANGE_URL"]]
      s2 == [s1 EXCEPT !.merchant_backend_url = c["TALER_MERCHANT_BACKEND_URL"]]
      s3 == [s2 EXCEPT !.merchant_api_key = c["TALER_MERCHANT_API_KEY"]]
      s5 == [s3 EXCEPT !.default_currency = DictGet(c, "TALER_DEFAULT_CURRENCY"),
                       !.webhook_secret = DictGet(c, "TALER_WEBHOOK_SECRET")]
  IN  IF "TALER_EXCHANGE_URL" \notin DOMAIN c
        THEN [self |-> self, app |-> a, raised |-> "KeyError"]
      ELSE IF "TALER_MERCHANT_BACKEND_URL" \notin DOMAIN c
        THEN [self |-> s1, app |-> a, raised |-> "KeyError"]
      ELSE IF "TALER_MERCHANT_API_KEY" \notin DOMAIN c
        THEN [self |-> s2, app |-> a, raised |-> "KeyError"]
      ELSE IF a.got_first_request
        THEN [self |-> s5, app |-> [a EXCEPT !.extensions = @ \cup {"taler"}],
              raised |-> "AssertionError"]
      ELSE [self |-> s5,
            app |-> [a EXCEPT !.extensions = @ \cup {"taler"},
                              !.before_request =
                                 Append(@, "_set_taler_in_request_context")],
            raised |-> "none"]

\* Taler.__init__(app): self.app = app; init_app(app) when an app is given;
\* then the block of defaults
Taler__init__(appArg, a) ==
  LET s0 == [NoObject EXCEPT !.app = appArg]
      r  == IF appArg # PyNone THEN init_app(s0, a)
            ELSE [self |-> s0, app |-> a, raised |-> "none"]
  IN  IF r.raised # "none" THEN [self |-> NoObject, app |-> r.app, raised |-> r.raised]
      ELSE [self |-> [r.self EXCEPT !.exchange_url = PyNone,
                                    !.merchant_backend_url = PyNone,
                                    !.merchant_api_key = PyNone,
                                    !.default_currency = PyStr("EUR"),
                                    !.webhook_secret = PyNone],
            app |-> r.app, raised |-> "none"]

NoCall == [op |-> "none"]
NoRequest == [data |-> << >>, headers |-> NoKeys, g |-> {}]
NoResult == [kind |-> "none"]

Returned(v) == [kind |-> "return", value |-> v]
Raised(exc) == [kind |-> "raise", exc |-> exc]
Aborted(code, description) == [kind |-> "abort", code |-> code, description |-> description]

Init ==
  /\ phase = "start"
  /\ app \in { [config |-> c, extensions |-> {}, before_request |-> << >>,
                  got_first_request |-> FALSE] :
                 c \in AppConfigs }
  /\ taler = NoObject
  /\ pc = "idle"
  /\ call = NoCall
  /\ sent = << >>
  /\ request = NoRequest
  /\ event = PyNone
  /\ log = << >>
  /\ result = NoResult

\* taler = Taler(app)
NewTalerWithApp ==
  /\ phase = "start"
  /\ \E r \in { Taler__init__([type |-> "Flask"], app) } :
         /\ taler' = r.self
         /\ app' = r.app
         /\ phase' = IF r.raised = "none" THEN "ready" ELSE "failed"
         /\ result' = IF r.raised = "none" THEN NoResult ELSE Raised(r.raised)
  /\ call' = [op |-> "__init__"]
  /\ UNCHANGED << pc, sent, request, event, log >>

\* taler = Taler()
NewTaler ==
  /\ phase = "start"
  /\ \E r \in { Taler__init__(PyNone, app) } :
         /\ taler' = r.self
         /\ app' = r.app
  /\ phase' = "bare"
  /\ call' = [op |-> "__init__"]
  /\ UNCHANGED << pc, sent, request, event, log, result >>

\* the hooks an application is given in one run
MaxHooks == 2

\* taler.init_app(app), on an instance made by Taler() or by Taler(app), for
\* the first time or again
InitApp ==
  /\ phase \in {"bare", "ready"}
  /\ pc = "idle"
  /\ Len(app.before_request) < MaxHooks
  /\ \E r \in { init_app(taler, app) } :
         /\ taler' = r.self
         /\ app' = r.app
         /\ phase' = IF r.raised = "none" THEN "ready" ELSE phase
         /\ result' = IF r.raised = "none" THEN Returned(PyNone) ELSE Raised(r.raised)
  /\ pc' = "done"
  /\ call' = [op |-> "init_app"]
  /\ sent' = << >>
  /\ log' = << >>
  /\ request' = NoRequest
  /\ event' = PyNone

(***************************************************************************)
(* The merchant backend behind the requests library.  A request that has   *)
(* gone out is answered with a status and a body, or the transport fails.  *)
(* The exceptions requests raises are subclasses of RequestException.      *)
(***************************************************************************)
NotJson == [type |-> "text"]

TestOrderBody ==
  PyDict([order_id |-> PyStr("test-order-123"),
          payment_redirect_url |-> PyStr("https://pay.taler.example.com/pay/123")])

TalerOrderBody ==
  PyDict([order_id |-> PyStr("2026.001-ABC"),
          taler_pay_uri |-> PyStr("taler://pay/backend.example.com/2026.001-ABC")])

RefundBody == PyDict([refund_id |-> PyStr("refund-456")])

ErrorBody == PyDict([code |-> PyInt(2000), hint |-> PyStr("backend error")])

Response(status, body) == [kind |-> "response", status_code |-> status, body |-> body]

TransportFailure(exc) == [kind |-> "failure", exc |-> exc]

BackendResponses ==
  { Response(200, b) : b \in {TestOrderBody, TalerOrderBody, RefundBody,
                              PyDict(NoKeys), PyList(<< >>), NotJson} }
  \cup { Response(404, ErrorBody), Response(500, ErrorBody), Response(500, NotJson) }
  \cup { TransportFailure("ConnectionError"), TransportFailure("SSLError") }

RequestExceptions ==
  {"MissingSchema", "InvalidSchema", "InvalidURL", "ConnectionError", "SSLError",
   "HTTPError", "JSONDecodeError"}

\* What the statements
\*     response = requests.<method>(url, ...)
\*     response.raise_for_status()
\*     ... response.json()
\* of a try block come to, given what came back: the decoded body, or the
\* RequestException raised.  raise_for_status raises HTTPError for 4xx and
\* 5xx.
TryBlock(resp) ==
  IF resp.kind = "failure" THEN Raised(resp.exc)
  ELSE IF 400 <= resp.status_code /\ resp.status_code < 600 THEN Raised("HTTPError")
  ELSE IF resp.body = NotJson THEN Raised("JSONDecodeError")
  ELSE Returned(resp.body)

HttpRequest(method, url, headers, json) ==
  [method |-> method, url |-> url, headers |-> headers, json |-> json]

(***************************************************************************)
(* The requests library: what requests.get / requests.post do with the URL *)
(* before anything is sent.  PreparedRequest.prepare_url leaves a URL with *)
(* a ":" that does not start with "http" as it is; any other URL goes      *)
(* through urllib3's parse_url, which puts scheme and host in lower case   *)
(* and percent-encodes what may not stand in its place, and is put         *)
(* together again and requoted.  A URL without scheme is a MissingSchema,  *)
(* one without host, or that does not parse, an InvalidURL; a URL for      *)
(* which the session has no adapter is an InvalidSchema.  Hosts are taken  *)
(* to be ASCII (no IDNA), and the URL to carry no password, which requests *)
(* would send as Basic authorization in place of the header the method     *)
(* sets.                                                                   *)
(***************************************************************************)
\* letters, digits and "._-~"
UNRESERVED_CHARS == (65..90) \cup (97..122) \cup (48..57) \cup {46, 95, 45, 126}

\* with SUB_DELIM_CHARS, "!$&'()*+,;=", and ":"
USERINFO_CHARS ==
  UNRESERVED_CHARS \cup {33, 36, 38, 39, 40, 41, 42, 43, 44, 59, 61} \cup {58}
PATH_CHARS == USERINFO_CHARS \cup {64, 47}
QUERY_CHARS == PATH_CHARS \cup {63}

\* at s[i] stands "%" and two hexadecimal digits
IsEscape(s, i) ==
  /\ i + 2 <= Len(s)
  /\ s[i] = 37
  /\ IsHexDigit(s[i + 1])
  /\ IsHexDigit(s[i + 2])

\* PERCENT_RE.subn(upper, component): the escapes in upper case, and how
\* many there are.  No escape starts within another, for "%" is no digit.
UpperEscapes(s) ==
  [text |-> [i \in 1..Len(s) |->
               IF (i > 1 /\ IsEscape(s, i - 1)) \/ (i > 2 /\ IsEscape(s, i - 2))
               THEN Upper(<< s[i] >>)[1] ELSE s[i]],
   n |-> Cardinality({ i \in 1..Len(s) : IsEscape(s, i) })]

\* the bytes from bs[i] on, those that are not allowed as "%XX" in upper case
EncodeBytes(bs, i, allowed, keepPercent) ==
  LET hex(n) == IF n < 10 THEN 48 + n ELSE 55 + n
  IN  Concat([k \in 1..Len(bs) |->
                IF (keepPercent /\ bs[k] = 37) \/ (bs[k] < 128 /\ bs[k] \in allowed)
                THEN << bs[k] >> ELSE << 37, hex(bs[k] \div 16), hex(bs[k] % 16) >>],
             i, Len(bs))

\* urllib3.util.url._encode_invalid_chars(component, allowed_chars): the "%"
\* signs stay only when every one of them starts an escape
_encode_invalid_chars(component, allowed_chars) ==
  LET Encoded(n, bs) ==
        EncodeBytes(bs, 1, allowed_chars,
                    n = Cardinality({ i \in 1..Len(bs) : bs[i] = 37 }))
      Uppered(u) == Encoded(u.n, Utf8SurrogatePass(u.text, 1))
  IN  Uppered(UpperEscapes(component))

\* the loop of urllib3's _remove_path_dot_segments
RECURSIVE RemoveDots(_, _)
RemoveDots(segments, output) ==
  IF Len(segments) = 0 THEN output
  ELSE IF Head(segments) = << 46 >> THEN RemoveDots(Tail(segments), output)
  ELSE IF Head(segments) # << 46, 46 >>
    THEN RemoveDots(Tail(segments), Append(output, Head(segments)))
  ELSE RemoveDots(Tail(segments),
         IF Len(output) = 0 THEN output ELSE Take(output, Len(output) - 1))

_remove_path_dot_segments(path) ==
  LET HasSuffix(s, p) == Len(s) >= Len(p) /\ SubSeq(s, Len(s) - Len(p) + 1, Len(s)) = p
      Output(out0) ==
        Join((IF HasPrefix(path, << 47 >>) /\ (Len(out0) = 0 \/ Len(out0[1]) > 0)
              THEN << << >> >> ELSE << >>)
               \o out0
               \o (IF HasSuffix(path, << 47, 46 >>) \/ HasSuffix(path, << 47, 46, 46 >>)
                   THEN << << >> >> ELSE << >>),
             47)
  IN  Output(RemoveDots(Split(path, 47), << >>))

\* the port of _HOST_PORT_RE, ":0*?(|0|[1-9][0-9]{0,4})$", for the text after
\* the colon: digits, at most five after the leading zeros, at most 65535.
\* The value is 0 for an empty port, which requests leaves out like port 0.
ParsePort(p) ==
  LET Port(nz, value) ==
        IF \E i \in 1..Len(p) : ~IsAsciiDigit(p[i]) THEN Fail
        ELSE IF nz > 0 /\ Len(p) - nz + 1 > 5 THEN Fail
        ELSE IF value > 65535 THEN Fail
        ELSE [ok |-> TRUE, port |-> value]
      Digits(nz) == Port(nz, IF nz = 0 THEN 0 ELSE DigitsValue(p, nz, Len(p) + 1, 0))
  IN  Digits(IF \E i \in 1..Len(p) : ~IsAsciiDigit(p[i]) THEN 0 ELSE Find(p, 49..57, 1))

\* a reg-name: no "[", "]", ":", "/", "?", "#", and "%" only in an escape
IsRegName(h) ==
  \A i \in 1..Len(h) :
     /\ h[i] \notin {91, 93, 58, 47, 63, 35}
     /\ h[i] = 37 => IsEscape(h, i)

\* urllib3.util.url._normalize_host(host, scheme) for http and https: the
\* host in lower case; of an IPv6 host with a zone the address in lower case,
\* "%" for the "%25" or "%" the zone starts with, and the zone as it is
\* written, with what is not unreserved percent-encoded
_normalize_host(host) ==
  LET ZoneId(pct, z) ==
        Lower(Take(host, pct - 1)) \o << 37 >>
          \o _encode_invalid_chars(
               IF HasPrefix(z, << 37, 50, 53 >>) /\ Len(z) > 3 THEN Drop(z, 3)
               ELSE Drop(z, 1),
               UNRESERVED_CHARS)
          \o << 93 >>
      Host(pct) ==
        IF pct = 0 THEN Lower(host) ELSE ZoneId(pct, SubSeq(host, pct, Len(host) - 1))
  IN  Host(IF HasPrefix(host, << 91 >>) THEN Find(host, {37}, 1) ELSE 0)

\* _HOST_PORT_RE on the authority after the user information, and
\* _normalize_host: a reg-name, or in brackets an IPv6 address and, after a
\* "%", a zone of unreserved characters and escapes; the host normalised and
\* the port as a number
ParseHostPort(hp) ==
  LET \* IPV6_ADDRZ_PAT between the brackets, the zone from its "%" on
      Zoned(inner, pct) ==
        /\ IsIPv6(IF pct = 0 THEN inner ELSE Take(inner, pct - 1), FALSE)
        /\ pct > 0 =>
              /\ pct < Len(inner)
              /\ \A i \in (pct + 1)..Len(inner) :
                    inner[i] \in UNRESERVED_CHARS \/ IsEscape(inner, i)
      Parsed(bracketed, host, port) ==
        IF /\ bracketed
           /\ ~Zoned(SubSeq(host, 2, Len(host) - 1),
                     Find(SubSeq(host, 2, Len(host) - 1), {37}, 1))
          THEN Fail
        ELSE IF ~bracketed /\ ~IsRegName(host) THEN Fail
        ELSE IF ~port.ok THEN Fail
        ELSE [ok |-> TRUE, host |-> _normalize_host(host), port |-> port.port]
      HostPort(bracketed, colon) ==
        IF colon < 0 THEN Fail
        ELSE Parsed(bracketed,
                    IF colon > 0 THEN Take(hp, colon - 1) ELSE hp,
                    IF colon > 0 THEN ParsePort(Drop(hp, colon))
                    ELSE [ok |-> TRUE, port |-> 0])
      Bracket(close, bracketed) ==
        HostPort(bracketed,
                 IF bracketed
                 THEN (IF close = Len(hp) THEN 0
                       ELSE IF hp[close + 1] = 58 THEN close + 1 ELSE -1)
                 ELSE Find(hp, {58}, 1))
      Close(close) == Bracket(close, HasPrefix(hp, << 91 >>) /\ close > 0)
  IN  Close(Find(hp, {93}, 1))

\* urllib3.util.parse_url(url) for the urls prepare_url hands over, which
\* start with "http", "//" or "/" and are not empty: URI_RE takes the text
\* apart (the authority ends at "/", "\", "?" or "#"), then the parts are
\* normalised as for http and https, and Url puts a "/" before a path that
\* starts with something else.  A part that is absent is empty.
parse_url(url) ==
  LET Slash(path) ==
        IF Len(path) > 0 /\ path[1] # 47 THEN << 47 >> \o path ELSE path
      Normalized(sch, authority, at, hp, path, u4, h) ==
        IF Len(authority) > 0 /\ ~hp.ok THEN Fail
        ELSE [ok |-> TRUE,
              scheme |-> sch,
              auth |-> IF at > 1 THEN _encode_invalid_chars(Take(authority, at - 1),
                                                            USERINFO_CHARS)
                       ELSE << >>,
              host |-> IF Len(authority) > 0 THEN hp.host ELSE << >>,
              port |-> IF Len(authority) > 0 THEN hp.port ELSE 0,
              path |-> Slash(_encode_invalid_chars(_remove_path_dot_segments(path),
                                                   PATH_CHARS)),
              query |-> _encode_invalid_chars(
                          IF HasPrefix(u4, << 63 >>)
                          THEN SubSeq(u4, 2, IF h > 0 THEN h - 1 ELSE Len(u4))
                          ELSE << >>,
                          QUERY_CHARS),
              fragment |-> IF h > 0
                           THEN _encode_invalid_chars(Drop(u4, h), QUERY_CHARS)
                           ELSE << >>]
      Authority(sch, authority, at, path, u4) ==
        Normalized(sch, authority, at, ParseHostPort(Drop(authority, at)), path, u4,
                   Find(u4, {35}, 1))
      Path(sch, authority, u3, p) ==
        Authority(sch, authority, RFind(authority, {64}), SubSeq(u3, 1, p - 1),
                  SubSeq(u3, p, Len(u3)))
      Netloc(sch, authority, u3) ==
        Path(sch, authority, u3,
             IF Find(u3, {63, 35}, 1) = 0 THEN Len(u3) + 1 ELSE Find(u3, {63, 35}, 1))
      AfterScheme(sch, u2, d) ==
        Netloc(sch,
               IF HasPrefix(u2, << 47, 47 >>) THEN SubSeq(u2, 3, d - 1) ELSE << >>,
               IF HasPrefix(u2, << 47, 47 >>) THEN SubSeq(u2, d, Len(u2)) ELSE u2)
      Scheme(sch, u2) ==
        AfterScheme(sch, u2, IF Find(u2, {92, 47, 63, 35}, 3) = 0 THEN Len(u2) + 1
                             ELSE Find(u2, {92, 47, 63, 35}, 3))
      Start(e) ==
        Scheme(IF e > 0 THEN Lower(Take(url, e - 1)) ELSE << >>,
               IF e > 0 THEN Drop(url, e) ELSE url)
  IN  Start(SchemeEnd(url))

\* requests.utils.unquote_unreserved(uri): of the parts uri.split("%") gives,
\* each after the first stood after a "%".  Two letters or digits at its
\* start are an escape: of an unreserved character, which takes its place,
\* or of another, which stays, or no hexadecimal number, which is an
\* InvalidURL.  Any other "%" stays.
unquote_unreserved(uri) ==
  LET IsAlnum(ch) == ch \in (48..57) \cup (65..90) \cup (97..122)
      \* h = part[0:2] is two letters or digits
      IsAlnumPair(part) == Len(part) >= 2 /\ IsAlnum(part[1]) /\ IsAlnum(part[2])
      c(part) == HexDigitValue(part[1]) * 16 + HexDigitValue(part[2])
      Unquoted(part) ==
        IF IsAlnumPair(part) /\ c(part) \in UNRESERVED_CHARS
        THEN << c(part) >> \o Drop(part, 2)
        ELSE << 37 >> \o part
      Parts(parts) ==
        IF \E i \in 2..Len(parts) :
             IsAlnumPair(parts[i]) /\ ~(IsHexDigit(parts[i][1]) /\ IsHexDigit(parts[i][2]))
        THEN Fail
        ELSE [ok |-> TRUE,
              v |-> parts[1]
                      \o Concat([i \in 1..Len(parts) |-> Unquoted(parts[i])], 2,
                                Len(parts))]
  IN  Parts(Split(uri, 37))

\* urllib.parse.quote(s, safe)
quote(s, i, safe) ==
  Concat([k \in 1..Len(s) |->
            IF s[k] \in safe THEN << s[k] >> ELSE EncodeBytes(Utf8Bytes(s[k]), 1, {}, FALSE)],
         i, Len(s))

\* requests.utils.requote_uri(uri): quote() leaves alone letters, digits,
\* "_.-~" and "!#$%&'()*+,/:;=?@[]~"; when unquote_unreserved raises
\* InvalidURL the uri is quoted as it is, every "%" in it too.
requote_uri(uri) ==
  LET safe_without_percent ==
        UNRESERVED_CHARS
          \cup {33, 35, 36, 38, 39, 40, 41, 42, 43, 44, 47, 58, 59, 61, 63, 64, 91, 93,
                126}
      Requoted(u) ==
        IF u.ok THEN quote(u.v, 1, safe_without_percent \cup {37})
        ELSE quote(uri, 1, safe_without_percent)
  IN  Requoted(unquote_unreserved(uri))

\* PreparedRequest.prepare_url(url, None): the URL to send, or the exception.
\* What urljoin returns starts with a scheme or "/", so url.lstrip() finds
\* nothing to strip.
prepare_url(url) ==
  LET Prepared(p) ==
        IF ~p.ok THEN [exc |-> "InvalidURL"]
        ELSE IF Len(p.scheme) = 0 THEN [exc |-> "MissingSchema"]
        ELSE IF Len(p.host) = 0 THEN [exc |-> "InvalidURL"]
        ELSE IF p.host[1] \in {42, 46} THEN [exc |-> "InvalidURL"]
        ELSE [exc |-> "none",
              url |-> requote_uri(
                        urlunparse(
                          p.scheme,
                          (IF Len(p.auth) > 0 THEN p.auth \o << 64 >> ELSE << >>)
                            \o p.host
                            \o (IF p.port > 0 THEN << 58 >> \o DecimalText(p.port)
                                ELSE << >>),
                          IF Len(p.path) = 0 THEN << 47 >> ELSE p.path,
                          << >>, p.query, p.fragment))]
  IN  IF Find(url, {58}, 1) > 0 /\ ~HasPrefix(Lower(url), << 104, 116, 116, 112 >>)
        THEN [exc |-> "none", url |-> url]
      ELSE Prepared(parse_url(url))

\* what comes of requests.get(url) / requests.post(url) before the request
\* leaves: the URL that is sent, or the RequestException raised.
\* Session.get_adapter(url) finds the adapters mounted on "https://" and
\* "http://".
PrepareRequest(url) ==
  LET Adapter(p, lower) ==
        IF HasPrefix(lower, << 104, 116, 116, 112, 115, 58, 47, 47 >>)
             \/ HasPrefix(lower, << 104, 116, 116, 112, 58, 47, 47 >>)
        THEN p ELSE [exc |-> "InvalidSchema"]
      Prepared(p) == IF p.exc # "none" THEN p ELSE Adapter(p, Lower(p.url))
  IN  Prepared(prepare_url(url))

(***************************************************************************)
(* Taler.create_order                                                      *)
(***************************************************************************)
\* the request create_order builds (lines 87-112)
create_order_request(self, a) ==
  HttpRequest("POST",
    \* "/private/orders"
    urljoin(self.merchant_backend_url,
            << 47, 112, 114, 105, 118, 97, 116, 101, 47, 111, 114, 100, 101,
               114, 115 >>),
    [Accept |-> "application/json",
     Authorization |-> "Basic " \o Format(self.merchant_api_key)]
       @@ ("Content-Type" :> "application/json"),
    [order |->
       [summary |-> a.product_description,
        order_id |-> a.order_id,
        amount |-> PyStr(Format(PyOr(a.currency, self.default_currency))
                           \o ":" \o Format(a.amount)),
        public_reorder_url |-> a.public_reorder_url,
        fulfillment_url |-> a.fulfillment_url,
        refund_deadline |-> a.refund_deadline,
        pay_deadline |-> a.pay_deadline,
        auto_refund |-> a.auto_refund]
         @@ (IF a.metadata # PyNone THEN "metadata" :> a.metadata ELSE NoKeys),
     create_token |-> PyBool(TRUE)])

\* lines 113-119: the result is passed through, a RequestException is
\* logged and raised again
create_order_finish(outcome) ==
  IF outcome.kind = "raise"
  THEN [result |-> outcome, log |-> << << "ERROR", "Error creating order", outcome.exc >> >>]
  ELSE [result |-> outcome, log |-> << >>]

(***************************************************************************)
(* Taler.get_payment_url and Taler.get_order                               *)
(***************************************************************************)
get_request(self, order_id) ==
  HttpRequest("GET",
    \* f'/private/orders/{order_id}'
    urljoin(self.merchant_backend_url,
            << 47, 112, 114, 105, 118, 97, 116, 101, 47, 111, 114, 100, 101,
               114, 115, 47 >>
              \o StrText(order_id)),
    [Accept |-> "application/json",
     Authorization |-> "Basic " \o Format(self.merchant_api_key)],
    PyNone)

\* lines 138-145: order_data.get('taler_pay_uri'); a RequestException is
\* logged and None returned.  A body that is JSON but no object has no
\* .get, and that AttributeError is not caught.
get_payment_url_finish(outcome) ==
  IF outcome.kind = "raise"
  THEN [result |-> Returned(PyNone),
        log |-> << << "ERROR", "Error retrieving payment URL for order", outcome.exc >> >>]
  ELSE IF outcome.value.type # "dict"
  THEN [result |-> Raised("AttributeError"), log |-> << >>]
  ELSE [result |-> Returned(DictGet(outcome.value.d, "taler_pay_uri")), log |-> << >>]

\* get_order with the except clause of create_order: logged, raised again
get_order_finish_raising(outcome) ==
  IF outcome.kind = "raise"
  THEN [result |-> outcome,
        log |-> << << "ERROR", "Error retrieving order", outcome.exc >> >>]
  ELSE [result |-> outcome, log |-> << >>]

\* lines 164-170
get_order_finish(outcome) ==
  IF outcome.kind = "raise"
  THEN [result |-> Returned(PyNone),
        log |-> << << "ERROR", "Error retrieving order", outcome.exc >> >>]
  ELSE [result |-> outcome, log |-> << >>]

(***************************************************************************)
(* Taler.process_refund                                                    *)
(***************************************************************************)
\* lines 184-196
process_refund_request(self, a) ==
  HttpRequest("POST",
    \* f'/private/orders/{order_id}/refund'
    urljoin(self.merchant_backend_url,
            << 47, 112, 114, 105, 118, 97, 116, 101, 47, 111, 114, 100, 101,
               114, 115, 47 >>
              \o StrText(a.order_id) \o << 47, 114, 101, 102, 117, 110, 100 >>),
    [Accept |-> "application/json",
     Authorization |-> "Basic " \o Format(self.merchant_api_key)]
       @@ ("Content-Type" :> "application/json"),
    (IF a.amount # PyNone THEN "refund" :> PyStr(Format(a.amount)) ELSE NoKeys)
      @@ (IF a.reason # PyNone THEN "reason" :> a.reason ELSE NoKeys))

\* process_refund with the except clause of get_order: logged, None returned
process_refund_finish_quiet(outcome) ==
  IF outcome.kind = "raise"
  THEN [result |-> Returned(PyNone),
        log |-> << << "ERROR", "Error processing refund for order", outcome.exc >> >>]
  ELSE [result |-> outcome, log |-> << >>]

\* lines 198-204
process_refund_finish(outcome) ==
  IF outcome.kind = "raise"
  THEN [result |-> outcome,
        log |-> << << "ERROR", "Error processing refund for order", outcome.exc >> >>]
  ELSE [result |-> outcome, log |-> << >>]

(***************************************************************************)
(* hashlib.sha256 and hmac.new(key, msg, hashlib.sha256) on byte           *)
(* sequences (FIPS 180-4, RFC 2104).  A 32-bit word is a pair <<hi, lo>>   *)
(* of 16-bit halves, so that every intermediate value stays a small        *)
(* integer; additions are modulo 2^32.                                     *)
(***************************************************************************)
SHA256_K ==
  << <<17034, 12184>>, <<28983, 17553>>, <<46528, 64463>>, <<59829, 56229>>,
     <<14678, 49755>>, <<23025, 4593>>, <<37439, 33444>>, <<43804, 24277>>,
     <<55303, 43672>>, <<4739, 23297>>, <<9265, 34238>>, <<21772, 32195>>,
     <<29374, 23924>>, <<32990, 45566>>, <<39900, 1703>>, <<49563, 61812>>,
     <<58523, 27073>>, <<61374, 18310>>, <<4033, 40390>>, <<9228, 41420>>,
     <<11753, 11375>>, <<19060, 33962>>, <<23728, 43484>>, <<30457, 35034>>,
     <<38974, 20818>>, <<43057, 50797>>, <<45059, 10184>>, <<48985, 32711>>,
     <<50912, 3059>>, <<54695, 37191>>, <<1738, 25425>>, <<5161, 10599>>,
     <<10167, 2693>>, <<11803, 8504>>, <<19756, 28156>>, <<21304, 3347>>,
     <<25866, 29524>>, <<30314, 2747>>, <<33218, 51502>>, <<37490, 11397>>,
     <<41663, 59553>>, <<43034, 26187>>, <<49739, 35696>>, <<51052, 20899>>,
     <<53650, 59417>>, <<54937, 1572>>, <<62478, 13701>>, <<4202, 41072>>,
     <<6564, 49430>>, <<7735, 27656>>, <<10056, 30540>>, <<13488, 48309>>,
     <<14620, 3251>>, <<20184, 43594>>, <<23452, 51791>>, <<26670, 28659>>,
     <<29839, 33518>>, <<30885, 25455>>, <<33992, 30740>>, <<36039, 520>>,
     <<37054, 65530>>, <<42064, 27883>>, <<48889, 41975>>, <<50801, 30962>> >>

SHA256_H0 ==
  << <<27145, 58983>>, <<47975, 44677>>, <<15470, 62322>>, <<42319, 62778>>,
     <<20750, 21119>>, <<39685, 26764>>, <<8067, 55723>>, <<23520, 52505>> >>

\* x xor y and x and y for two 4-bit numbers, tabulated: entry 16 * x + y + 1
XorTable ==
  [k \in 1..256 |->
     LET x == (k - 1) \div 16
         y == (k - 1) % 16
     IN  ((x + y) % 2) + 2 * (((x \div 2) + (y \div 2)) % 2)
           + 4 * (((x \div 4) + (y \div 4)) % 2) + 8 * (((x \div 8) + (y \div 8)) % 2)]

AndTable ==
  [k \in 1..256 |->
     LET x == (k - 1) \div 16
         y == (k - 1) % 16
     IN  ((x % 2) * (y % 2)) + 2 * (((x \div 2) % 2) * ((y \div 2) % 2))
           + 4 * (((x \div 4) % 2) * ((y \div 4) % 2)) + 8 * ((x \div 8) * (y \div 8))]

\* the operation on two 16-bit numbers, four bits at a time
Op16(t, x, y) ==
  t[16 * (x % 16) + (y % 16) + 1]
  + 16 * t[16 * ((x \div 16) % 16) + ((y \div 16) % 16) + 1]
  + 256 * t[16 * ((x \div 256) % 16) + ((y \div 256) % 16) + 1]
  + 4096 * t[16 * (x \div 4096) + (y \div 4096) + 1]

Xor(a, b) == << Op16(XorTable, a[1], b[1]), Op16(XorTable, a[2], b[2]) >>
And(a, b) == << Op16(AndTable, a[1], b[1]), Op16(AndTable, a[2], b[2]) >>

\* addition modulo 2^32
Add2(a, b) ==
  << (a[1] + b[1] + ((a[2] + b[2]) \div 65536)) % 65536, (a[2] + b[2]) % 65536 >>

\* rotate right by n (0 < n < 32)
Rotr(w, n) ==
  IF n >= 16
  THEN IF n = 16 THEN << w[2], w[1] >>
       ELSE << (w[2] \div 2 ^ (n - 16)) + (w[1] % 2 ^ (n - 16)) * 2 ^ (32 - n),
               (w[1] \div 2 ^ (n - 16)) + (w[2] % 2 ^ (n - 16)) * 2 ^ (32 - n) >>
  ELSE << (w[1] \div 2 ^ n) + (w[2] % 2 ^ n) * 2 ^ (16 - n),
          (w[2] \div 2 ^ n) + (w[1] % 2 ^ n) * 2 ^ (16 - n) >>

\* shift right by n (0 < n < 16)
Shr(w, n) ==
  << w[1] \div 2 ^ n, (w[2] \div 2 ^ n) + (w[1] % 2 ^ n) * 2 ^ (16 - n) >>

\* the message schedule: 16 words of the block, extended to 64
RECURSIVE Schedule(_)
Schedule(w) ==
  LET SmallSigma0(x) == Xor(Xor(Rotr(x, 7), Rotr(x, 18)), Shr(x, 3))
      SmallSigma1(x) == Xor(Xor(Rotr(x, 17), Rotr(x, 19)), Shr(x, 10))
  IN  IF Len(w) = 64 THEN w
      ELSE Schedule(Append(w, Add2(Add2(SmallSigma1(w[Len(w) - 1]), w[Len(w) - 6]),
                                   Add2(SmallSigma0(w[Len(w) - 14]), w[Len(w) - 15]))))

\* one round on the working variables a..h = s[1]..s[8]
Round(s, k, w) ==
  LET BigSigma0(a) == Xor(Xor(Rotr(a, 2), Rotr(a, 13)), Rotr(a, 22))
      BigSigma1(e) == Xor(Xor(Rotr(e, 6), Rotr(e, 11)), Rotr(e, 25))
      Not(x) == << 65535 - x[1], 65535 - x[2] >>
      Ch(x, y, z) == Xor(And(x, y), And(Not(x), z))
      Maj(x, y, z) == Xor(Xor(And(x, y), And(x, z)), And(y, z))
      Next8(t1, t2) ==
        << Add2(t1, t2), s[1], s[2], s[3], Add2(s[4], t1), s[5], s[6], s[7] >>
  IN  Next8(Add2(Add2(Add2(s[8], BigSigma1(s[5])), Add2(Ch(s[5], s[6], s[7]), k)), w),
            Add2(BigSigma0(s[1]), Maj(s[1], s[2], s[3])))

RECURSIVE Rounds(_, _, _)
Rounds(s, w, t) ==
  CASE t > 64 -> s
    [] Len(s) = 8 -> Rounds(Round(s, SHA256_K[t], w[t]), w, t + 1)

Compress(h, block) ==
  LET Sum(s) ==
        << Add2(h[1], s[1]), Add2(h[2], s[2]), Add2(h[3], s[3]), Add2(h[4], s[4]),
           Add2(h[5], s[5]), Add2(h[6], s[6]), Add2(h[7], s[7]), Add2(h[8], s[8]) >>
  IN  Sum(Rounds(h, Schedule(block), 1))

\* the blocks of the padded message p from block b on, 16 words each
RECURSIVE Blocks(_, _, _)
Blocks(h, p, b) ==
  IF 64 * b >= Len(p) THEN h
  ELSE Blocks(Compress(h, [i \in 1..16 |->
                             << p[64 * b + 4 * i - 3] * 256 + p[64 * b + 4 * i - 2],
                                p[64 * b + 4 * i - 1] * 256 + p[64 * b + 4 * i] >>]),
              p, b + 1)

\* hashlib.sha256(m).digest(): the message is padded with 0x80, zeros up to
\* 56 mod 64 and the bit length as 8 bytes; the eight words as 32 bytes
Sha256(m) ==
  LET bytes(w) == << w[1] \div 256, w[1] % 256, w[2] \div 256, w[2] % 256 >>
      Digest(h) ==
        bytes(h[1]) \o bytes(h[2]) \o bytes(h[3]) \o bytes(h[4])
          \o bytes(h[5]) \o bytes(h[6]) \o bytes(h[7]) \o bytes(h[8])
  IN  Digest(Blocks(SHA256_H0,
                    m \o << 128 >> \o [i \in 1..((119 - (Len(m) % 64)) % 64) |-> 0]
                      \o << 0, 0, 0, 0, 0, (Len(m) * 8) \div 65536,
                            ((Len(m) * 8) \div 256) % 256, (Len(m) * 8) % 256 >>,
                    0))

\* hmac.new(key, msg, hashlib.sha256).digest()
HmacSha256(key, msg) ==
  LET Pad(kb, c) == [i \in 1..64 |-> Op16(XorTable, kb[i], c)]
      Hmac(kb) == Sha256(Pad(kb, 92) \o Sha256(Pad(kb, 54) \o msg))
  IN  Hmac(IF Len(key) > 64 THEN Sha256(key) \o [i \in 1..32 |-> 0]
           ELSE key \o [i \in 1..(64 - Len(key)) |-> 0])

\* bytes.hex()
RECURSIVE HexDigest(_, _)
HexDigest(bs, i) ==
  IF i > Len(bs) THEN << >>
  ELSE LET hex(n) == IF n < 10 THEN 48 + n ELSE 87 + n
       IN  << hex(bs[i] \div 16), hex(bs[i] % 16) >> \o HexDigest(bs, i + 1)

\* hmac.new(key, msg, hashlib.sha256).hexdigest(), as code points
HmacSha256Hex(key, msg) == HexDigest(HmacSha256(key, msg), 1)

(***************************************************************************)
(* bytes.decode('utf-8')                                                   *)
(***************************************************************************)
IsCont(b, i) == i <= Len(b) /\ b[i] >= 128 /\ b[i] <= 191

\* strict decoding: a byte sequence that is not well-formed UTF-8 fails
\* (UnicodeDecodeError)
RECURSIVE Utf8Decode(_, _, _)
Utf8Decode(b, i, acc) ==
  IF i > Len(b) THEN [ok |-> TRUE, v |-> acc]
  ELSE IF b[i] < 128
    THEN \* the ASCII bytes up to the next byte that is not, at once
         LET j == IF Find(b, 128..255, i) = 0 THEN Len(b) + 1 ELSE Find(b, 128..255, i)
         IN  Utf8Decode(b, j, acc \o SubSeq(b, i, j - 1))
  ELSE IF b[i] >= 194 /\ b[i] <= 223
    THEN IF IsCont(b, i + 1)
         THEN Utf8Decode(b, i + 2, Append(acc, (b[i] - 192) * 64 + (b[i + 1] - 128)))
         ELSE Fail
  ELSE IF b[i] >= 224 /\ b[i] <= 239
    THEN IF /\ IsCont(b, i + 1) /\ IsCont(b, i + 2)
            /\ (b[i] = 224 => b[i + 1] >= 160)
            /\ (b[i] = 237 => b[i + 1] <= 159)
         THEN Utf8Decode(b, i + 3,
                Append(acc, (b[i] - 224) * 4096 + (b[i + 1] - 128) * 64 + (b[i + 2] - 128)))
         ELSE Fail
  ELSE IF b[i] >= 240 /\ b[i] <= 244
    THEN IF /\ IsCont(b, i + 1) /\ IsCont(b, i + 2) /\ IsCont(b, i + 3)
            /\ (b[i] = 240 => b[i + 1] >= 144)
            /\ (b[i] = 244 => b[i + 1] <= 143)
         THEN Utf8Decode(b, i + 4,
                Append(acc, (b[i] - 240) * 262144 + (b[i + 1] - 128) * 4096
                            + (b[i + 2] - 128) * 64 + (b[i + 3] - 128)))
         ELSE Fail
  ELSE Fail

(***************************************************************************)
(* json.loads on a str (a sequence of code points): objects, arrays,       *)
(* strings with their escapes (a \uXXXX escape gives one code point, and   *)
(* a high surrogate followed by the escape of a low one gives the code     *)
(* point of the pair), numbers, NaN, Infinity and -Infinity, true, false   *)
(* and null.  A float keeps its text.  The result is                       *)
(* [ok |-> TRUE, v |-> value] or, for a JSONDecodeError, [ok |-> FALSE].   *)
(***************************************************************************)
JOk(v, i) == [ok |-> TRUE, v |-> v, i |-> i]

\* past the whitespace: space, tab, LF, CR
RECURSIVE SkipWs(_, _)
SkipWs(s, i) == IF i <= Len(s) /\ s[i] \in {32, 9, 10, 13} THEN SkipWs(s, i + 1) ELSE i

At(s, i, c) == i <= Len(s) /\ s[i] = c

\* the one-character escapes: " \ / b f n r t
SimpleEscape ==
  (34 :> 34) @@ (92 :> 92) @@ (47 :> 47) @@ (98 :> 8) @@ (102 :> 12)
    @@ (110 :> 10) @@ (114 :> 13) @@ (116 :> 9)

\* at s[i] stands "\u" and four hexadecimal digits
IsUEscape(s, i) ==
  /\ i + 5 <= Len(s)
  /\ s[i] = 92
  /\ s[i + 1] = 117
  /\ \A k \in 2..5 : IsHexDigit(s[i + k])

\* the number the four hexadecimal digits from s[i] on stand for
Hex4(s, i) ==
  HexDigitValue(s[i]) * 4096 + HexDigitValue(s[i + 1]) * 256
    + HexDigitValue(s[i + 2]) * 16 + HexDigitValue(s[i + 3])

\* from the character after the opening quote to the closing quote
RECURSIVE ScanString(_, _, _)
ScanString(s, i, acc) ==
  IF i > Len(s) THEN Fail
  ELSE IF s[i] = 34 THEN JOk(acc, i + 1)
  ELSE IF s[i] < 32 THEN Fail
  ELSE IF s[i] # 92
    THEN \* the characters up to the next quote, backslash or control
         \* character, at once
         LET j == IF Find(s, (0..31) \cup {34, 92}, i) = 0 THEN Len(s) + 1
                  ELSE Find(s, (0..31) \cup {34, 92}, i)
         IN  ScanString(s, j, acc \o SubSeq(s, i, j - 1))
  ELSE IF i + 1 > Len(s) THEN Fail
  ELSE IF s[i + 1] \in DOMAIN SimpleEscape
    THEN ScanString(s, i + 2, Append(acc, SimpleEscape[s[i + 1]]))
  ELSE IF IsUEscape(s, i)
    THEN IF /\ Hex4(s, i + 2) >= 55296 /\ Hex4(s, i + 2) <= 56319
            /\ IsUEscape(s, i + 6)
            /\ Hex4(s, i + 8) >= 56320 /\ Hex4(s, i + 8) <= 57343
         THEN ScanString(s, i + 12,
                Append(acc, 65536 + (Hex4(s, i + 2) - 55296) * 1024
                                  + (Hex4(s, i + 8) - 56320)))
         ELSE ScanString(s, i + 6, Append(acc, Hex4(s, i + 2)))
  ELSE Fail

RECURSIVE ScanDigits(_, _)
ScanDigits(s, i) == IF i <= Len(s) /\ IsAsciiDigit(s[i]) THEN ScanDigits(s, i + 1) ELSE i


\* -?(0|[1-9][0-9]*)(\.[0-9]+)?([eE][-+]?[0-9]+)?
ParseNumber(s, i) ==
  LET Number(d0, d1, e1) ==
        IF d1 = d0 THEN Fail
        ELSE IF e1 = d1
          THEN JOk(PyInt((IF d0 > i THEN -1 ELSE 1) * DigitsValue(s, d0, d1, 0)), d1)
        ELSE JOk([type |-> "float", text |-> SubSeq(s, i, e1 - 1)], e1)
      Exponent(d0, d1, f1, e0) ==
        Number(d0, d1, IF (At(s, f1, 101) \/ At(s, f1, 69)) /\ ScanDigits(s, e0) > e0
                       THEN ScanDigits(s, e0) ELSE f1)
      Fraction(d0, d1, f1) ==
        Exponent(d0, d1, f1,
                 IF At(s, f1 + 1, 43) \/ At(s, f1 + 1, 45) THEN f1 + 2 ELSE f1 + 1)
      Integer(d0, d1) ==
        Fraction(d0, d1, IF At(s, d1, 46) /\ ScanDigits(s, d1 + 1) > d1 + 1
                         THEN ScanDigits(s, d1 + 1) ELSE d1)
      Sign(d0) == Integer(d0, IF At(s, d0, 48) THEN d0 + 1 ELSE ScanDigits(s, d0))
  IN  Sign(IF At(s, i, 45) THEN i + 1 ELSE i)

RECURSIVE ParseValue(_, _), ParseMembers(_, _, _), ParseElements(_, _, _)

\* the value that starts at s[i]
ParseValue(s, i) ==
  IF i > Len(s) THEN Fail
  ELSE IF s[i] = 34
    THEN LET r == ScanString(s, i + 1, << >>)
         IN  IF r.ok THEN JOk(PyStr(r.v), r.i) ELSE Fail
  ELSE IF s[i] = 123
    THEN IF At(s, SkipWs(s, i + 1), 125)
         THEN JOk(PyDict(NoKeys), SkipWs(s, i + 1) + 1)
         ELSE ParseMembers(s, SkipWs(s, i + 1), NoKeys)
  ELSE IF s[i] = 91
    THEN IF At(s, SkipWs(s, i + 1), 93)
         THEN JOk(PyList(<< >>), SkipWs(s, i + 1) + 1)
         ELSE ParseElements(s, SkipWs(s, i + 1), << >>)
  ELSE IF HasPrefix(Drop(s, i - 1), << 116, 114, 117, 101 >>) THEN JOk(PyBool(TRUE), i + 4)
  ELSE IF HasPrefix(Drop(s, i - 1), << 102, 97, 108, 115, 101 >>) THEN JOk(PyBool(FALSE), i + 5)
  ELSE IF HasPrefix(Drop(s, i - 1), << 110, 117, 108, 108 >>) THEN JOk(PyNone, i + 4)
  ELSE LET Constant(n) ==
             IF n.ok THEN n
             ELSE IF HasPrefix(Drop(s, i - 1), << 78, 97, 78 >>)
               THEN JOk([type |-> "float", text |-> SubSeq(s, i, i + 2)], i + 3)
             ELSE IF HasPrefix(Drop(s, i - 1), << 73, 110, 102, 105, 110, 105, 116, 121 >>)
               THEN JOk([type |-> "float", text |-> SubSeq(s, i, i + 7)], i + 8)
             ELSE IF HasPrefix(Drop(s, i - 1),
                               << 45, 73, 110, 102, 105, 110, 105, 116, 121 >>)
               THEN JOk([type |-> "float", text |-> SubSeq(s, i, i + 8)], i + 9)
             ELSE Fail
       IN  Constant(ParseNumber(s, i))

\* "key" : value, then "," and the next member or "}"; a repeated key keeps
\* its last value
ParseMembers(s, i, acc) ==
  IF ~At(s, i, 34) THEN Fail
  ELSE LET k == ScanString(s, i + 1, << >>)
       IN  IF ~k.ok \/ ~At(s, SkipWs(s, k.i), 58) THEN Fail
           ELSE LET v == ParseValue(s, SkipWs(s, SkipWs(s, k.i) + 1))
                IN  IF ~v.ok THEN Fail
                    ELSE IF At(s, SkipWs(s, v.i), 125)
                      THEN JOk(PyDict((k.v :> v.v) @@ acc), SkipWs(s, v.i) + 1)
                    ELSE IF At(s, SkipWs(s, v.i), 44)
                      THEN ParseMembers(s, SkipWs(s, SkipWs(s, v.i) + 1),
                                        (k.v :> v.v) @@ acc)
                    ELSE Fail

ParseElements(s, i, acc) ==
  LET v == ParseValue(s, i)
  IN  IF ~v.ok THEN Fail
      ELSE IF At(s, SkipWs(s, v.i), 93)
        THEN JOk(PyList(Append(acc, v.v)), SkipWs(s, v.i) + 1)
      ELSE IF At(s, SkipWs(s, v.i), 44)
        THEN ParseElements(s, SkipWs(s, SkipWs(s, v.i) + 1), Append(acc, v.v))
      ELSE Fail

\* json.loads(s): one value, white space around it, nothing after it
json_loads(s) ==
  LET Whole(r) == IF r.ok /\ SkipWs(s, r.i) > Len(s) THEN r ELSE Fail
  IN  Whole(ParseValue(s, SkipWs(s, 1)))

(***************************************************************************)
(* Webhooks.  The bodies the backend or anyone else may POST, as bytes.    *)
(***************************************************************************)
\* '{"type": "payment.succeeded", "payload": {"order_id": "test-order-123"}}'
BodySucceeded ==
  << 123, 34, 116, 121, 112, 101, 34, 58, 32, 34, 112, 97, 121, 109, 101,
     110, 116, 46, 115, 117, 99, 99, 101, 101, 100, 101, 100, 34, 44, 32,
     34, 112, 97, 121, 108, 111, 97, 100, 34, 58, 32, 123, 34, 111, 114,
     100, 101, 114, 95, 105, 100, 34, 58, 32, 34, 116, 101, 115, 116, 45,
     111, 114, 100, 101, 114, 45, 49, 50, 51, 34, 125, 125 >>

\* '{"type":"payment.failed","payload":{"order_id":"o-2"}}'
BodyFailed ==
  << 123, 34, 116, 121, 112, 101, 34, 58, 34, 112, 97, 121, 109, 101, 110,
     116, 46, 102, 97, 105, 108, 101, 100, 34, 44, 34, 112, 97, 121, 108,
     111, 97, 100, 34, 58, 123, 34, 111, 114, 100, 101, 114, 95, 105, 100,
     34, 58, 34, 111, 45, 50, 34, 125, 125 >>

\* '{"type": "refund.created"}'
BodyOtherType ==
  << 123, 34, 116, 121, 112, 101, 34, 58, 32, 34, 114, 101, 102, 117, 110,
     100, 46, 99, 114, 101, 97, 116, 101, 100, 34, 125 >>

\* '{"payload": {"order_id": "o-3"}}'
BodyNoType ==
  << 123, 34, 112, 97, 121, 108, 111, 97, 100, 34, 58, 32, 123, 34, 111,
     114, 100, 101, 114, 95, 105, 100, 34, 58, 32, 34, 111, 45, 51, 34,
     125, 125 >>

\* '{}'
BodyEmptyObject ==
  << 123, 125 >>

\* '{"type": "payment.succeeded"}'
BodyNoPayload ==
  << 123, 34, 116, 121, 112, 101, 34, 58, 32, 34, 112, 97, 121, 109, 101,
     110, 116, 46, 115, 117, 99, 99, 101, 101, 100, 101, 100, 34, 125 >>

\* '{"type": "payment.failed", "payload": null}'
BodyNullPayload ==
  << 123, 34, 116, 121, 112, 101, 34, 58, 32, 34, 112, 97, 121, 109, 101,
     110, 116, 46, 102, 97, 105, 108, 101, 100, 34, 44, 32, 34, 112, 97,
     121, 108, 111, 97, 100, 34, 58, 32, 110, 117, 108, 108, 125 >>

\* '{"type":"payment.succeeded","payload":{}}'
BodyNoOrderId ==
  << 123, 34, 116, 121, 112, 101, 34, 58, 34, 112, 97, 121, 109, 101, 110,
     116, 46, 115, 117, 99, 99, 101, 101, 100, 101, 100, 34, 44, 34, 112,
     97, 121, 108, 111, 97, 100, 34, 58, 123, 125, 125 >>

\* '[]'
BodyArray ==
  << 91, 93 >>

\* 'not json'
BodyNotJson ==
  << 110, 111, 116, 32, 106, 115, 111, 110 >>

\* '{"type": "payment.succeeded", "payload": {"order_id": "test-or'
BodyTruncated ==
  << 123, 34, 116, 121, 112, 101, 34, 58, 32, 34, 112, 97, 121, 109, 101,
     110, 116, 46, 115, 117, 99, 99, 101, 101, 100, 101, 100, 34, 44, 32,
     34, 112, 97, 121, 108, 111, 97, 100, 34, 58, 32, 123, 34, 111, 114,
     100, 101, 114, 95, 105, 100, 34, 58, 32, 34, 116, 101, 115, 116, 45,
     111, 114 >>

\* '{"type": "\xff"}'
BodyBadUtf8 ==
  << 123, 34, 116, 121, 112, 101, 34, 58, 32, 34, 255, 34, 125 >>

\* ''
BodyEmpty ==
  << >>

\* 'NaN'
BodyNaN ==
  << 78, 97, 78 >>

\* '{"type": "payment.succeeded", "payload": {"order_id": NaN, "range": [-Infinity, Infinity]}}'
BodyNaNOrderId ==
  << 123, 34, 116, 121, 112, 101, 34, 58, 32, 34, 112, 97, 121, 109, 101,
        110, 116, 46, 115, 117, 99, 99, 101, 101, 100, 101, 100, 34, 44, 32,
        34, 112, 97, 121, 108, 111, 97, 100, 34, 58, 32, 123, 34, 111, 114,
        100, 101, 114, 95, 105, 100, 34, 58, 32, 78, 97, 78, 44, 32, 34, 114,
        97, 110, 103, 101, 34, 58, 32, 91, 45, 73, 110, 102, 105, 110, 105,
        116, 121, 44, 32, 73, 110, 102, 105, 110, 105, 116, 121, 93, 125,
        125 >>

\* '{"type":"payment.failed","payload":{"order_id":"\ud83d\ude00"}}'
BodySurrogatePair ==
  << 123, 34, 116, 121, 112, 101, 34, 58, 34, 112, 97, 121, 109, 101, 110,
        116, 46, 102, 97, 105, 108, 101, 100, 34, 44, 34, 112, 97, 121, 108,
        111, 97, 100, 34, 58, 123, 34, 111, 114, 100, 101, 114, 95, 105, 100,
        34, 58, 34, 92, 117, 100, 56, 51, 100, 92, 117, 100, 101, 48, 48, 34,
        125, 125 >>

WebhookBodies ==
  { BodySucceeded,
    BodyFailed,
    BodyOtherType,
    BodyNoType,
    BodyEmptyObject,
    BodyNoPayload,
    BodyNullPayload,
    BodyNoOrderId,
    BodyArray,
    BodyNotJson,
    BodyTruncated,
    BodyBadUtf8,
    BodyEmpty,
    BodyNaN,
    BodyNaNOrderId,
    BodySurrogatePair }

\* the str constants handle_webhook compares with, as code points
Str ==
  [type |-> << 116, 121, 112, 101 >>,
   payload |-> << 112, 97, 121, 108, 111, 97, 100 >>,
   order_id |-> << 111, 114, 100, 101, 114, 95, 105, 100 >>,
   payment_succeeded |-> << 112, 97, 121, 109, 101, 110, 116, 46, 115, 117, 99, 99,
                            101, 101, 100, 101, 100 >>,
   payment_failed |-> << 112, 97, 121, 109, 101, 110, 116, 46, 102, 97, 105, 108,
                         101, 100 >>]

\* what the backend, which holds the secret, puts into X-Taler-Signature
ValidSignature ==
  [body \in WebhookBodies |-> HmacSha256Hex(Utf8Encode(WebhookSecretText, 1).v, body)]

\* the bodies that are also sent with signatures that are not the right one
TamperedBodies == { BodySucceeded, BodyNotJson, BodyEmpty }

\* what a sender computes who takes the secret to be "guess"
GuessedSignature ==
  [body \in TamperedBodies |->
     HmacSha256Hex(Utf8Encode(<< 103, 117, 101, 115, 115 >>, 1).v, body)]


\* signatures that are not the right one for `body`: empty, the right one
\* in upper case, the right one cut short, the one of another body, the
\* one under another key, and one that is not ASCII
WrongSignatures(body) ==
  LET Wrong(valid, guessed) ==
        { << >>,
          Upper(valid[body]),
          SubSeq(valid[body], 1, 63),
          valid[IF body = BodySucceeded THEN BodyFailed ELSE BodySucceeded],
          guessed[body],
          << 115, 105, 103, 233 >> }
  IN  Wrong(ValidSignature, GuessedSignature)

\* every body arrives unsigned and rightly signed; the tampered ones also
\* with each wrong signature
WebhookRequests ==
  { [data |-> body, headers |-> h] :
      body \in WebhookBodies, h \in { NoKeys } }
  \cup UNION { { [data |-> body, headers |-> "X-Taler-Signature" :> PyStr(sig)] :
                   sig \in IF body \in TamperedBodies
                           THEN WrongSignatures(body) \cup { ValidSignature[body] }
                           ELSE { ValidSignature[body] } } : body \in WebhookBodies }

\* hmac.compare_digest(a, b) on two str: TypeError unless both are ASCII
compare_digest(a, b) ==
  IF (\E i \in 1..Len(a) : a[i] > 127) \/ (\E i \in 1..Len(b) : b[i] > 127)
  THEN Raised("TypeError")
  ELSE Returned(PyBool(a = b))

\* verify_webhook_signature that lets everything through while no secret
\* is configured
verify_webhook_signature_open(self, payload, signature) ==
  IF ~Truthy(self.webhook_secret)
  THEN [result |-> Returned(PyBool(TRUE)),
        log |-> << << "ERROR", "Webhook secret is not configured." >> >>]
  ELSE IF ~Utf8Encode(self.webhook_secret.s, 1).ok
    THEN [result |-> Raised("UnicodeEncodeError"), log |-> << >>]
  ELSE [result |-> compare_digest(
                     HmacSha256Hex(Utf8Encode(self.webhook_secret.s, 1).v, payload),
                     signature.s),
        log |-> << >>]

\* Taler.verify_webhook_signature(payload, signature), lines 218-229
verify_webhook_signature(self, payload, signature) ==
  IF ~Truthy(self.webhook_secret)
  THEN [result |-> Returned(PyBool(FALSE)),
        log |-> << << "ERROR", "Webhook secret is not configured." >> >>]
  ELSE IF ~Utf8Encode(self.webhook_secret.s, 1).ok
    THEN [result |-> Raised("UnicodeEncodeError"), log |-> << >>]
  ELSE [result |-> compare_digest(
                     HmacSha256Hex(Utf8Encode(self.webhook_secret.s, 1).v, payload),
                     signature.s),
        log |-> << >>]

\* lines 259-264 of handle_webhook: the body and the header are read and
\* the signature is checked; `or` does not call verify_webhook_signature
\* for a header that is missing or empty
check_signature(self, req) ==
  LET signature == DictGet(req.headers, "X-Taler-Signature")
      invalid == [result |-> Aborted(400, "Invalid signature"),
                  log |-> << << "ERROR", "Invalid webhook signature." >> >>]
      Checked(v) ==
        IF v.result.kind = "raise" THEN v
        ELSE IF ~v.result.value.b
          THEN [result |-> invalid.result, log |-> v.log \o invalid.log]
        ELSE [result |-> NoResult, log |-> v.log]
  IN  IF ~Truthy(signature) THEN invalid
      ELSE Checked(verify_webhook_signature(self, req.data, signature))

\* lines 266-272: json.loads(data.decode('utf-8')); only JSONDecodeError is
\* caught
parse_payload(data) ==
  LET Loaded(doc) ==
        IF ~doc.ok
        THEN [result |-> Aborted(400, "Invalid JSON payload"),
              log |-> << << "ERROR", "Invalid JSON payload in webhook." >> >>,
              event |-> PyNone]
        ELSE [result |-> NoResult,
              log |-> << << "INFO", "Received Taler webhook", doc.v >> >>,
              event |-> doc.v]
      Decoded(text) ==
        IF ~text.ok
        THEN [result |-> Raised("UnicodeDecodeError"), log |-> << >>, event |-> PyNone]
        ELSE Loaded(json_loads(text.v))
  IN  Decoded(Utf8Decode(data, 1, << >>))

\* v[key] for a str key: KeyError for a dict without it, TypeError for
\* anything that is no dict
Subscript(v, key) ==
  IF v.type # "dict" THEN Raised("TypeError")
  ELSE IF key \notin DOMAIN v.d THEN Raised("KeyError")
  ELSE Returned(v.d[key])

\* event["payload"]["order_id"]
OrderReference(ev) ==
  LET pl == Subscript(ev, Str.payload)
  IN  IF pl.kind = "raise" THEN pl ELSE Subscript(pl.value, Str.order_id)

\* the dispatch with event["type"] in place of event.get("type")
process_event_strict(ev) ==
  LET type == Subscript(ev, Str.type)
      succeeded == type = Returned(PyStr(Str.payment_succeeded))
      failed == type = Returned(PyStr(Str.payment_failed))
      ref == OrderReference(ev)
  IN  IF type.kind = "raise" THEN [result |-> type, log |-> << >>]
      ELSE IF ~(succeeded \/ failed) THEN [result |-> Returned(PyBool(TRUE)), log |-> << >>]
      ELSE IF ref.kind = "raise" THEN [result |-> ref, log |-> << >>]
      ELSE [result |-> Returned(PyBool(TRUE)),
            log |-> << << "INFO",
                          IF succeeded THEN "Payment succeeded for order"
                          ELSE "Payment failed for order",
                          ref.value >> >>]

\* lines 275-283: event.get("type") needs a dict; the two payment events
\* read the order id, every other event is passed over
process_event(ev) ==
  LET type == DictGet(ev.d, Str.type)
      succeeded == type = PyStr(Str.payment_succeeded)
      failed == type = PyStr(Str.payment_failed)
      ref == OrderReference(ev)
  IN  IF ev.type # "dict" THEN [result |-> Raised("AttributeError"), log |-> << >>]
      ELSE IF ~(succeeded \/ failed) THEN [result |-> Returned(PyBool(TRUE)), log |-> << >>]
      ELSE IF ref.kind = "raise" THEN [result |-> ref, log |-> << >>]
      ELSE [result |-> Returned(PyBool(TRUE)),
            log |-> << << "INFO",
                          IF succeeded THEN "Payment succeeded for order"
                          ELSE "Payment failed for order",
                          ref.value >> >>]

(***************************************************************************)
(* Calls.  A method that talks to the backend runs in two steps: the call  *)
(* up to requests.get / requests.post, and the rest once the backend has   *)
(* answered or the transport has failed.                                   *)
(***************************************************************************)
BeginCall(op, a) ==
  /\ phase \in {"bare", "ready"}
  /\ pc = "idle"
  /\ call' = [op |-> op, args |-> a, reply |-> [kind |-> "none"]]
  /\ request' = NoRequest
  /\ event' = PyNone
  /\ UNCHANGED << phase, app, taler >>

EndCall(op, resp) ==
  /\ pc = "http"
  /\ call.op = op
  /\ call' = [call EXCEPT !.reply = resp]
  /\ pc' = "done"
  /\ UNCHANGED << phase, app, taler, sent, request, event >>

Finish(f) ==
  /\ result' = f.result
  /\ log' = f.log

\* url = urljoin(...) and requests.<method>(url, ...).  A ValueError of
\* urljoin is raised outside the try block and leaves the method as it is.
\* A URL that requests refuses raises a RequestException inside the try
\* block, and `refused` is what the method makes of each.  Otherwise the
\* request leaves with the URL requests has prepared.
Send(req, refused) ==
  IF ~req.url.ok
  THEN /\ sent' = << >>
       /\ pc' = "done"
       /\ result' = Raised("ValueError")
       /\ log' = << >>
  ELSE \E p \in { PrepareRequest(req.url.v) } :
         IF p.exc # "none"
         THEN /\ sent' = << >>
              /\ pc' = "done"
              /\ Finish(refused[p.exc])
         ELSE /\ sent' = << [req EXCEPT !.url = p.url] >>
              /\ pc' = "http"
              /\ result' = NoResult
              /\ log' = << >>

CreateOrderCall(a) ==
  /\ BeginCall("create_order", a)
  /\ Send(create_order_request(taler, a),
          [e \in RequestExceptions |-> create_order_finish(Raised(e))])

\* create_order that posts the order a second time when the first attempt
\* ended in a RequestException
CreateOrderResponse_again(resp) ==
  IF TryBlock(resp).kind = "raise" /\ Len(sent) = 1
  THEN /\ pc = "http"
       /\ call.op = "create_order"
       /\ sent' = sent \o sent
       /\ UNCHANGED << phase, app, taler, pc, call, request, event, log, result >>
  ELSE /\ EndCall("create_order", resp)
       /\ Finish(create_order_finish(TryBlock(resp)))

CreateOrderResponse(resp) ==
  /\ EndCall("create_order", resp)
  /\ Finish(create_order_finish(TryBlock(resp)))

GetPaymentUrlCall(order_id) ==
  /\ BeginCall("get_payment_url", [order_id |-> order_id])
  /\ Send(get_request(taler, order_id),
          [e \in RequestExceptions |-> get_payment_url_finish(Raised(e))])

GetPaymentUrlResponse(resp) ==
  /\ EndCall("get_payment_url", resp)
  /\ Finish(get_payment_url_finish(TryBlock(resp)))

GetOrderCall(order_id) ==
  /\ BeginCall("get_order", [order_id |-> order_id])
  /\ Send(get_request(taler, order_id),
          [e \in RequestExceptions |-> get_order_finish(Raised(e))])

GetOrderResponse(resp) ==
  /\ EndCall("get_order", resp)
  /\ Finish(get_order_finish(TryBlock(resp)))

ProcessRefundCall(a) ==
  /\ BeginCall("process_refund", a)
  /\ Send(process_refund_request(taler, a),
          [e \in RequestExceptions |-> process_refund_finish(Raised(e))])

ProcessRefundResponse(resp) ==
  /\ EndCall("process_refund", resp)
  /\ Finish(process_refund_finish(TryBlock(resp)))

\* the call is over: the caller has its result, the request context is gone
Return ==
  /\ pc = "done"
  /\ pc' = "idle"
  /\ call' = NoCall
  /\ sent' = << >>
  /\ request' = NoRequest
  /\ event' = PyNone
  /\ log' = << >>
  /\ result' = NoResult
  /\ UNCHANGED << phase, app, taler >>

(***************************************************************************)
(* The arguments the callers pass                                          *)
(***************************************************************************)
\* "test-order-123", and "../a b"
OrderIds ==
  { PyStr(<< 116, 101, 115, 116, 45, 111, 114, 100, 101, 114, 45, 49, 50,
             51 >>),
    PyStr(<< 46, 46, 47, 97, 32, 98 >>) }

CreateOrderArgs ==
  { [amount |-> amt, currency |-> cur, order_id |-> PyNone,
     product_description |-> PyStr("Test Product"), fulfillment_url |-> PyNone,
     metadata |-> md, auto_refund |-> PyNone, pay_deadline |-> PyNone,
     refund_deadline |-> PyNone, public_reorder_url |-> PyNone] :
       amt \in { PyFloat(10, 0), PyInt(3) },
       cur \in { PyNone, PyStr(""), PyStr("CHF") },
       md  \in { PyNone, PyDict([cart |-> PyStr("c-1")]) } }

RefundArgs ==
  { [order_id |-> oid, amount |-> amt, reason |-> rsn] :
       oid \in { PyStr(<< 116, 101, 115, 116, 45, 111, 114, 100, 101, 114,
                          45, 49, 50, 51 >>) },
       amt \in { PyNone, PyInt(0), PyFloat(2, 5) },
       rsn \in { PyNone, PyStr("damaged") } }

(***************************************************************************)
(* handle_webhook, called from the view the webhook is routed to.  Flask   *)
(* pushes the request context and runs the before_request hooks first.     *)
(***************************************************************************)
\* Taler._set_taler_in_request_context, when init_app registered it
BeforeRequest(a, g) ==
  IF Len(a.before_request) > 0 THEN g \cup {"taler"} ELSE g

WebhookRequest(req) ==
  /\ phase \in {"bare", "ready"}
  /\ pc = "idle"
  /\ request' = [data |-> req.data, headers |-> req.headers, g |-> BeforeRequest(app, {})]
  /\ call' = [op |-> "handle_webhook", args |-> << >>, reply |-> [kind |-> "none"]]
  /\ pc' = "wh_verify"
  /\ sent' = << >>
  /\ log' = << >>
  /\ event' = PyNone
  /\ result' = NoResult
  /\ app' = [app EXCEPT !.got_first_request = TRUE]
  /\ UNCHANGED << phase, taler >>

\* lines 259-264
HandleWebhookVerify ==
  /\ pc = "wh_verify"
  /\ \E c \in { check_signature(taler, request) } :
         /\ log' = c.log
         /\ result' = c.result
         /\ pc' = IF c.result = NoResult THEN "wh_parse" ELSE "done"
  /\ UNCHANGED << phase, app, taler, call, sent, request, event >>

\* lines 266-272
HandleWebhookParse ==
  /\ pc = "wh_parse"
  /\ \E p \in { parse_payload(request.data) } :
         /\ log' = log \o p.log
         /\ event' = p.event
         /\ result' = p.result
         /\ pc' = IF p.result = NoResult THEN "wh_dispatch" ELSE "done"
  /\ UNCHANGED << phase, app, taler, call, sent, request >>

\* lines 275-283
HandleWebhookDispatch ==
  /\ pc = "wh_dispatch"
  /\ \E e \in { process_event(event) } :
         /\ log' = log \o e.log
         /\ result' = e.result
  /\ pc' = "done"
  /\ UNCHANGED << phase, app, taler, call, sent, request, event >>

\* verify_webhook_signature called directly by the application
VerifyCalls ==
  UNION { { [payload |-> body, signature |-> PyStr(sig)] :
              sig \in WrongSignatures(body) \cup { ValidSignature[body] } } :
            body \in TamperedBodies }

VerifyWebhookSignatureCall(payload, signature) ==
  /\ BeginCall("verify_webhook_signature", [payload |-> payload, signature |-> signature])
  /\ pc' = "verify"
  /\ sent' = << >>
  /\ log' = << >>
  /\ result' = NoResult

VerifyWebhookSignatureReturn ==
  /\ pc = "verify"
  /\ \E v \in { verify_webhook_signature(taler, call.args.payload, call.args.signature) } :
         Finish(v)
  /\ pc' = "done"
  /\ UNCHANGED << phase, app, taler, call, sent, request, event >>

Next ==
  \/ NewTalerWithApp
  \/ NewTaler
  \/ InitApp
  \/ \E a \in CreateOrderArgs : CreateOrderCall(a)
  \/ \E r \in BackendResponses : CreateOrderResponse(r)
  \/ \E o \in OrderIds : GetPaymentUrlCall(o)
  \/ \E r \in BackendResponses : GetPaymentUrlResponse(r)
  \/ \E o \in OrderIds : GetOrderCall(o)
  \/ \E r \in BackendResponses : GetOrderResponse(r)
  \/ \E a \in RefundArgs : ProcessRefundCall(a)
  \/ \E r \in BackendResponses : ProcessRefundResponse(r)
  \/ \E req \in WebhookRequests : WebhookRequest(req)
  \/ HandleWebhookVerify
  \/ HandleWebhookParse
  \/ HandleWebhookDispatch
  \/ \E a \in VerifyCalls : VerifyWebhookSignatureCall(a.payload, a.signature)
  \/ VerifyWebhookSignatureReturn
  \/ Return

Spec == Init /\ [][Next]_vars

(***************************************************************************)
(* Reference digests: hmac.new(b"whsec", body, hashlib.sha256).hexdigest() *)
(* as CPython computes it, as code points.  The claims are stated against  *)
(* these, not against the operators above.                                 *)
(***************************************************************************)
ReferenceDigest(body) ==
  CASE body = BodySucceeded ->
       \* a289d58e95144c786248be79e3cc717ad630e8448072617cfa96c88671a958fb
       << 97, 50, 56, 57, 100, 53, 56, 101, 57, 53, 49, 52, 52, 99, 55, 56,
          54, 50, 52, 56, 98, 101, 55, 57, 101, 51, 99, 99, 55, 49, 55, 97,
          100, 54, 51, 48, 101, 56, 52, 52, 56, 48, 55, 50, 54, 49, 55, 99,
          102, 97, 57, 54, 99, 56, 56, 54, 55, 49, 97, 57, 53, 56, 102,
          98 >>
    [] body = BodyFailed ->
       \* c716bf13dc0645c720962ade9d6e65d228d324f5c05277b9bb48bb5ccf07fb3e
       << 99, 55, 49, 54, 98, 102, 49, 51, 100, 99, 48, 54, 52, 53, 99, 55,
          50, 48, 57, 54, 50, 97, 100, 101, 57, 100, 54, 101, 54, 53, 100,
          50, 50, 56, 100, 51, 50, 52, 102, 53, 99, 48, 53, 50, 55, 55, 98,
          57, 98, 98, 52, 56, 98, 98, 53, 99, 99, 102, 48, 55, 102, 98, 51,
          101 >>
    [] body = BodyOtherType ->
       \* 18d1197902e2b04ce34cd7aa67cfe5a49c4adfaa919cb63106b8502ca64bb790
       << 49, 56, 100, 49, 49, 57, 55, 57, 48, 50, 101, 50, 98, 48, 52, 99,
          101, 51, 52, 99, 100, 55, 97, 97, 54, 55, 99, 102, 101, 53, 97,
          52, 57, 99, 52, 97, 100, 102, 97, 97, 57, 49, 57, 99, 98, 54, 51,
          49, 48, 54, 98, 56, 53, 48, 50, 99, 97, 54, 52, 98, 98, 55, 57,
          48 >>
    [] body = BodyNoType ->
       \* 4c53db7325bea818545bf0a46d3ecda07412760b206b418a819e2f6b3fb373e7
       << 52, 99, 53, 51, 100, 98, 55, 51, 50, 53, 98, 101, 97, 56, 49, 56,
          53, 52, 53, 98, 102, 48, 97, 52, 54, 100, 51, 101, 99, 100, 97,
          48, 55, 52, 49, 50, 55, 54, 48, 98, 50, 48, 54, 98, 52, 49, 56,
          97, 56, 49, 57, 101, 50, 102, 54, 98, 51, 102, 98, 51, 55, 51,
          101, 55 >>
    [] body = BodyEmptyObject ->
       \* ae6341ea7f40a435db57d903d02cba19085efb8a913f8cfbd8cff3d7df0c7a2d
       << 97, 101, 54, 51, 52, 49, 101, 97, 55, 102, 52, 48, 97, 52, 51,
          53, 100, 98, 53, 55, 100, 57, 48, 51, 100, 48, 50, 99, 98, 97,
          49, 57, 48, 56, 53, 101, 102, 98, 56, 97, 57, 49, 51, 102, 56,
          99, 102, 98, 100, 56, 99, 102, 102, 51, 100, 55, 100, 102, 48,
          99, 55, 97, 50, 100 >>
    [] body = BodyNoPayload ->
       \* f8a6a6abfebd05c6062a00305e643eca6248f06dcb2ae8c1900a259e8f6de822
       << 102, 56, 97, 54, 97, 54, 97, 98, 102, 101, 98, 100, 48, 53, 99,
          54, 48, 54, 50, 97, 48, 48, 51, 48, 53, 101, 54, 52, 51, 101, 99,
          97, 54, 50, 52, 56, 102, 48, 54, 100, 99, 98, 50, 97, 101, 56,
          99, 49, 57, 48, 48, 97, 50, 53, 57, 101, 56, 102, 54, 100, 101,
          56, 50, 50 >>
    [] body = BodyNullPayload ->
       \* 918beef2508d8ce7057c10104023ba8082df2177bd46d617ad9f29b06aed5de6
       << 57, 49, 56, 98, 101, 101, 102, 50, 53, 48, 56, 100, 56, 99, 101,
          55, 48, 53, 55, 99, 49, 48, 49, 48, 52, 48, 50, 51, 98, 97, 56,
          48, 56, 50, 100, 102, 50, 49, 55, 55, 98, 100, 52, 54, 100, 54,
          49, 55, 97, 100, 57, 102, 50, 57, 98, 48, 54, 97, 101, 100, 53,
          100, 101, 54 >>
    [] body = BodyNoOrderId ->
       \* 7b4a29b2d85806035c1667677fed6c87636d52c595166619f2fd936aa49da547
       << 55, 98, 52, 97, 50, 57, 98, 50, 100, 56, 53, 56, 48, 54, 48, 51,
          53, 99, 49, 54, 54, 55, 54, 55, 55, 102, 101, 100, 54, 99, 56,
          55, 54, 51, 54, 100, 53, 50, 99, 53, 57, 53, 49, 54, 54, 54, 49,
          57, 102, 50, 102, 100, 57, 51, 54, 97, 97, 52, 57, 100, 97, 53,
          52, 55 >>
    [] body = BodyArray ->
       \* 9dc5d69d0cc76a725a98b69de04c4cbbc5105e6f4419d0a296d58df8402376e1
       << 57, 100, 99, 53, 100, 54, 57, 100, 48, 99, 99, 55, 54, 97, 55,
          50, 53, 97, 57, 56, 98, 54, 57, 100, 101, 48, 52, 99, 52, 99, 98,
          98, 99, 53, 49, 48, 53, 101, 54, 102, 52, 52, 49, 57, 100, 48,
          97, 50, 57, 54, 100, 53, 56, 100, 102, 56, 52, 48, 50, 51, 55,
          54, 101, 49 >>
    [] body = BodyNotJson ->
       \* b0886a1069509fddf25b584bb7894aa46131e23f255da944036fb67929256028
       << 98, 48, 56, 56, 54, 97, 49, 48, 54, 57, 53, 48, 57, 102, 100,
          100, 102, 50, 53, 98, 53, 56, 52, 98, 98, 55, 56, 57, 52, 97, 97,
          52, 54, 49, 51, 49, 101, 50, 51, 102, 50, 53, 53, 100, 97, 57,
          52, 52, 48, 51, 54, 102, 98, 54, 55, 57, 50, 57, 50, 53, 54, 48,
          50, 56 >>
    [] body = BodyTruncated ->
       \* 5949e0992a4f57373ba4324d60fbbfb1114c63664b018af3c3ff9ade2e894830
       << 53, 57, 52, 57, 101, 48, 57, 57, 50, 97, 52, 102, 53, 55, 51, 55,
          51, 98, 97, 52, 51, 50, 52, 100, 54, 48, 102, 98, 98, 102, 98,
          49, 49, 49, 52, 99, 54, 51, 54, 54, 52, 98, 48, 49, 56, 97, 102,
          51, 99, 51, 102, 102, 57, 97, 100, 101, 50, 101, 56, 57, 52, 56,
          51, 48 >>
    [] body = BodyBadUtf8 ->
       \* 89f76adf0bec17da5c9cf11bc5095daa04e9cb0a8ad54e4499f64c49841c4ae5
       << 56, 57, 102, 55, 54, 97, 100, 102, 48, 98, 101, 99, 49, 55, 100,
          97, 53, 99, 57, 99, 102, 49, 49, 98, 99, 53, 48, 57, 53, 100, 97,
          97, 48, 52, 101, 57, 99, 98, 48, 97, 56, 97, 100, 53, 52, 101,
          52, 52, 57, 57, 102, 54, 52, 99, 52, 57, 56, 52, 49, 99, 52, 97,
          101, 53 >>
    [] body = BodyEmpty ->
       \* 30b8ae759085dd8ae9890354d6a941d37f53008e834e2e4a819d9fc155e99438
       << 51, 48, 98, 56, 97, 101, 55, 53, 57, 48, 56, 53, 100, 100, 56,
          97, 101, 57, 56, 57, 48, 51, 53, 52, 100, 54, 97, 57, 52, 49,
          100, 51, 55, 102, 53, 51, 48, 48, 56, 101, 56, 51, 52, 101, 50,
          101, 52, 97, 56, 49, 57, 100, 57, 102, 99, 49, 53, 53, 101, 57,
          57, 52, 51, 56 >>
    [] body = BodyNaN ->
       \* 14dd30996e8711c011e46acb1d5fcf2a32d13845e760e82e91e28bc92294053f
       << 49, 52, 100, 100, 51, 48, 57, 57, 54, 101, 56, 55, 49, 49, 99,
             48, 49, 49, 101, 52, 54, 97, 99, 98, 49, 100, 53, 102, 99, 102,
             50, 97, 51, 50, 100, 49, 51, 56, 52, 53, 101, 55, 54, 48, 101,
             56, 50, 101, 57, 49, 101, 50, 56, 98, 99, 57, 50, 50, 57, 52,
             48, 53, 51, 102 >>
    [] body = BodyNaNOrderId ->
       \* afc393c784b8e705d7f5c2ecd2587d9eebb9da21e63f17da488d9ce1ffa7ebf8
       << 97, 102, 99, 51, 57, 51, 99, 55, 56, 52, 98, 56, 101, 55, 48,
             53, 100, 55, 102, 53, 99, 50, 101, 99, 100, 50, 53, 56, 55, 100,
             57, 101, 101, 98, 98, 57, 100, 97, 50, 49, 101, 54, 51, 102, 49,
             55, 100, 97, 52, 56, 56, 100, 57, 99, 101, 49, 102, 102, 97, 55,
             101, 98, 102, 56 >>
    [] body = BodySurrogatePair ->
       \* f51c81fb2713bfb764946f5dd9210dd4383d6a516aa6c9f0d4a92774bd92cbd9
       << 102, 53, 49, 99, 56, 49, 102, 98, 50, 55, 49, 51, 98, 102, 98,
             55, 54, 52, 57, 52, 54, 102, 53, 100, 100, 57, 50, 49, 48, 100,
             100, 52, 51, 56, 51, 100, 54, 97, 53, 49, 54, 97, 97, 54, 99,
             57, 102, 48, 100, 52, 97, 57, 50, 55, 55, 52, 98, 100, 57, 50,
             99, 98, 100, 57 >>

(***************************************************************************)
(* What the claims speak of                                                *)
(***************************************************************************)
ConfiguredBackend == app.config["TALER_MERCHANT_BACKEND_URL"]
ConfiguredKey == app.config["TALER_MERCHANT_API_KEY"]

\* str(amount) for the amounts the callers pass
AmountText(amount) == IF amount = PyFloat(10, 0) THEN "10.0" ELSE "3"

\* the configured backend is an http or https URL with a host and nothing
\* else, the kind of value the README and the tests configure
HttpBackend ==
  /\ ConfiguredBackend.type = "str"
  /\ \E b \in { urlsplit(ConfiguredBackend.s, << >>) } :
        /\ b.ok
        /\ b.scheme \in { << 104, 116, 116, 112 >>, << 104, 116, 116, 112, 115 >> }
        /\ Len(b.netloc) > 0
        /\ IsRegName(b.netloc)

\* "<scheme>://<host>" of the configured backend, the host in lower case
BackendRoot ==
  LET b == urlsplit(ConfiguredBackend.s, << >>)
  IN  b.scheme \o << 58, 47, 47 >> \o Lower(b.netloc)

\* the configured backend URL, the host in lower case, its path included
BackendText == BackendRoot \o urlsplit(ConfiguredBackend.s, << >>).path

\* the order id of the call needs no quoting in a URL
PlainOrderId ==
  call.op # "create_order" =>
     \A i \in 1..Len(call.args.order_id.s) :
        call.args.order_id.s[i] \in UNRESERVED_CHARS

\* the path of the request each method is documented to make
ExpectedPath ==
  CASE call.op = "create_order" -> << 47, 112, 114, 105, 118, 97, 116, 101, 47, 111, 114, 100, 101, 114,
       115 >>
    [] call.op \in {"get_payment_url", "get_order"} ->
         << 47, 112, 114, 105, 118, 97, 116, 101, 47, 111, 114, 100, 101, 114,
       115, 47 >>
           \o call.args.order_id.s
    [] call.op = "process_refund" ->
         << 47, 112, 114, 105, 118, 97, 116, 101, 47, 111, 114, 100, 101, 114,
       115, 47 >>
           \o call.args.order_id.s \o << 47, 114, 101, 102, 117, 110, 100 >>

Is2xx(reply) ==
  reply.kind = "response" /\ reply.status_code >= 200 /\ reply.status_code < 300

\* the header carries the digest of the raw body under the secret the
\* instance holds
RightlySigned ==
  /\ taler.webhook_secret = PyStr(WebhookSecretText)
  /\ DictGet(request.headers, "X-Taler-Signature")
       = PyStr(ReferenceDigest(request.data))

\* nothing of lines 266-283 has run
ParseNotReached ==
  /\ event = PyNone
  /\ \A i \in 1..Len(log) :
        log[i][2] \notin { "Received Taler webhook",
                           "Invalid JSON payload in webhook." }
  /\ result \notin { Aborted(400, "Invalid JSON payload"),
                     Raised("UnicodeDecodeError") }

(***************************************************************************)
(* C1.  Every create_order call on a client made from an application       *)
(* sends exactly one POST to /private/orders of the backend whose          *)
(* order.amount is "<CUR>:<amount>", CUR being the currency argument when  *)
(* one is given and the client's default currency otherwise; on a 2xx      *)
(* response the result carries the order_id of the backend's response.     *)
(***************************************************************************)
C1_CreateOrder ==
  (phase = "ready" /\ HttpBackend /\ call.op = "create_order"
     /\ pc \in {"http", "done"}) =>
     /\ Len(sent) = 1
     /\ sent[1].method = "POST"
     /\ sent[1].url = BackendRoot \o ExpectedPath
     /\ sent[1].json.order.amount =
          PyStr(Format(IF Truthy(call.args.currency) THEN call.args.currency
                       ELSE taler.default_currency)
                  \o ":" \o AmountText(call.args.amount))
     /\ (pc = "done" /\ Is2xx(call.reply) /\ call.reply.body.type = "dict"
           /\ "order_id" \in DOMAIN call.reply.body.d) =>
          /\ result.kind = "return"
          /\ result.value.d.order_id = call.reply.body.d.order_id

(***************************************************************************)
(* C2.  After Taler(app), or Taler() followed by init_app(app), the        *)
(* client's merchant backend URL and API key are the application's         *)
(* TALER_MERCHANT_BACKEND_URL and TALER_MERCHANT_API_KEY, and every        *)
(* request goes to {backend URL}/private/orders... with the header         *)
(* Authorization: Basic <API key>.                                         *)
(***************************************************************************)
C2_ConfigFromApp ==
  phase = "ready" =>
     /\ taler.merchant_backend_url = ConfiguredBackend
     /\ taler.merchant_api_key = ConfiguredKey
     /\ \A i \in 1..Len(sent) :
           /\ (HttpBackend /\ PlainOrderId) =>
                 sent[i].url = BackendText \o ExpectedPath
           /\ sent[i].headers.Authorization = "Basic " \o ConfiguredKey.s

(***************************************************************************)
(* C3.  A client made from an application has the default currency "EUR"   *)
(* when TALER_DEFAULT_CURRENCY is not configured, on either way of making  *)
(* it, and the configured value otherwise; a create_order call without a   *)
(* currency never sends an amount whose currency part is missing or null.  *)
(***************************************************************************)
C3_DefaultCurrency ==
  phase = "ready" =>
     /\ taler.default_currency =
          IF "TALER_DEFAULT_CURRENCY" \in DOMAIN app.config
          THEN app.config["TALER_DEFAULT_CURRENCY"] ELSE PyStr("EUR")
     /\ (call.op = "create_order" /\ call.args.currency = PyNone /\ Len(sent) = 1) =>
          sent[1].json.order.amount \notin
            { PyStr(c \o ":" \o AmountText(call.args.amount)) : c \in {"", "None"} }

(***************************************************************************)
(* C4.  get_payment_url returns None when the backend answers 404, and     *)
(* the payment-redirect string when it answers 2xx with a body that has    *)
(* the field the test backend supplies, 'payment_redirect_url'.            *)
(***************************************************************************)
C4_PaymentUrl ==
  (phase = "ready" /\ call.op = "get_payment_url" /\ pc = "done"
     /\ call.reply.kind = "response") =>
     /\ call.reply.status_code = 404 => result = Returned(PyNone)
     /\ (Is2xx(call.reply) /\ call.reply.body.type = "dict"
           /\ "payment_redirect_url" \in DOMAIN call.reply.body.d) =>
          result = Returned(call.reply.body.d.payment_redirect_url)

C6_VerifySignature ==
  (call.op = "verify_webhook_signature" /\ pc = "done") =>
     /\ result = Returned(PyBool(TRUE)) <=>
          /\ Truthy(taler.webhook_secret)
          /\ taler.webhook_secret = PyStr(WebhookSecretText)
          /\ call.args.signature.s = ReferenceDigest(call.args.payload)
     /\ ~Truthy(taler.webhook_secret) => result = Returned(PyBool(FALSE))

C6_SignatureAccepted ==
  /\ call.op = "verify_webhook_signature"
  /\ pc = "done"
  /\ Truthy(taler.webhook_secret)
  /\ call.args.signature.s = ReferenceDigest(call.args.payload)
  /\ result = Returned(PyBool(TRUE))

(***************************************************************************)
(* C7.  handle_webhook parses the payload only after the signature has     *)
(* verified on the same raw bytes: whenever the signature header is        *)
(* absent or does not verify against the raw body, the call fails with     *)
(* the invalid-signature outcome (400, "Invalid signature") and the JSON   *)
(* parse is never reached.                                                 *)
(***************************************************************************)
C7_SignatureBeforeParse ==
  call.op = "handle_webhook" =>
     /\ pc \in {"wh_parse", "wh_dispatch"} => RightlySigned
     /\ (pc = "done" /\ ~RightlySigned) =>
          /\ result = Aborted(400, "Invalid signature")
          /\ ParseNotReached

(***************************************************************************)
(* The part of C7 that holds whatever the signature: lines 266-283 run     *)
(* only for a body whose header carries its digest.                        *)
(***************************************************************************)
ParseOnlyWhenSigned ==
  call.op = "handle_webhook" =>
     /\ pc \in {"wh_parse", "wh_dispatch"} => RightlySigned
     /\ (pc = "done" /\ ~RightlySigned) =>
          /\ result \in { Aborted(400, "Invalid signature"), Raised("TypeError"),
                          Raised("UnicodeEncodeError") }
          /\ ParseNotReached

(***************************************************************************)
(* The bodies by what they are                                             *)
(***************************************************************************)
\* JSON objects with a 'type'
BodiesWithType ==
  { BodySucceeded, BodyFailed, BodyOtherType, BodyNoPayload, BodyNullPayload,
    BodyNoOrderId, BodyNaNOrderId, BodySurrogatePair }

\* JSON objects with an order reference, payload.order_id
BodiesWithOrderReference ==
  { BodySucceeded, BodyFailed, BodyNoType, BodyNaNOrderId, BodySurrogatePair }

=============================================================================
